---------------------------- MODULE Spec2Model ----------------------------
(***************************************************************************)
(* Orbital sampler of sketch.js (the later of the two concatenated         *)
(* versions, lines 1690-5470): the UI handlers, the debounced start of a   *)
(* sampling session, the chunked rejection sampler, the outward-push       *)
(* normaliser and the deferred overlay fit, as one state machine whose     *)
(* steps are the tasks of the single-threaded JavaScript event loop (one   *)
(* UI event handler or one timer callback per step).                       *)
(***************************************************************************)
EXTENDS Integers, Sequences, FiniteSets, TLC

(***************************************************************************)
(* Bounds of the model: the number of sessions ever started, and the       *)
(* number of overlay timers the overlay button may have pending at once.   *)
(***************************************************************************)
MaxSessions == 2

MaxPending == 1

(***************************************************************************)
(* Program constants, scaled down from the source (30000, 1500 and 25000)  *)
(* so that a session spans several chunks, the last chunk is cut short by  *)
(* numSamples, and the attempt budget of a chunk can run out.              *)
(***************************************************************************)
MAX_ELECTRONS == 3

CHUNK_SAMPLES == 2

ATTEMPTS_PER_CHUNK == 2

(* What a user types into the number fields (raw, before validation), as  *)
(* pairs of field and value.  UIEvents drives the full event loop; the     *)
(* wider SamplerEvents drives the sampler on its own (SamplerSpec).        *)
UIEvents ==
  ({"l"} \X {0, 1}) \cup ({"ne"} \X {0, MAX_ELECTRONS, MAX_ELECTRONS + 1})

SamplerEvents ==
  ({"l"} \X {0, 1}) \cup ({"ne"} \X (0 .. (MAX_ELECTRONS + 1)))

Modes == {"basic", "complete"}

(* The JavaScript null of each nullable global.                            *)
Null == "null"

NullBuffer == << -1 >>

NoCache == [type |-> "nocache", sid |-> 0]

NoHash == [n |-> 0, l |-> 0, m |-> 0, ne |-> 0, mode |-> Null]

NotDone == [sampleCount |-> -1, sampleTarget |-> -1, numSamples |-> -1, stored |-> -1]

electronSize == 1

VARIABLES
  nInput, lInput, mInput, numElectronsInput,  \* ui.*Input.value()
  orbitalMode,          \* window.orbitalMode
  positions,            \* NullBuffer or one slot per point: 0 = zero-initialised, s = stored by session s
  sizes,                \* NullBuffer or one slot per point: 0 or electronSize
  sampleCount, sampleTarget, sampling,
  overlayEnabled, overlayCache,
  orbitalUpdateTimer,   \* TRUE when the debounce timer is pending
  pendingUpdates,       \* number of createOrbitalFromUI callbacks the host has pending
  currentSamplingId, lastUIHash,
  sessions,             \* closure of each session's pending start/chunk timer
  overlayTimers,        \* number of pending setTimeout(computeOverlay, 10) of the overlay button
  fitTimers,            \* pending deferred parts of computeOverlay, in firing order
  uiQuiet,              \* the user has stopped producing events
  onDoneCalls,          \* per session: number of invocations of its completion callback
  chunkRuns,            \* number of chunk() executions of the current session past the id check
  doneAt,               \* per session: what the completion callback saw when invoked
  oobStore,             \* a chunk stored at a point index >= sampleTarget
  quantum,              \* radius model: (n, l, m) of the session being sampled
  cloud,                \* radius model: the points of the buffer, as radius and height
  stage,                \* radius model: "idle", "sampling", "full" or "pushed"
  sampled,              \* shape fitting: the snapshot computeOverlay took of the buffer
  fitted,               \* shape fitting: the descriptor its deferred part built
  args,                 \* numeric functions: the call being evaluated
  returned,             \* numeric functions: what the call returned
  taskAttempts          \* work per task: sampling attempts made by the last timer callback

vars == << nInput, lInput, mInput, numElectronsInput, orbitalMode, positions, sizes,
           sampleCount, sampleTarget, sampling, overlayEnabled, overlayCache,
           orbitalUpdateTimer, pendingUpdates, currentSamplingId, lastUIHash, sessions,
           overlayTimers, fitTimers, uiQuiet, onDoneCalls, chunkRuns, doneAt, oobStore,
           quantum, cloud, stage, sampled, fitted, args, returned,
           taskAttempts >>

uiVars == << nInput, lInput, mInput, numElectronsInput >>

ghostVars == << onDoneCalls, chunkRuns, doneAt, oobStore >>

radiusVars == << quantum, cloud, stage >>

fitVars == << sampled, fitted >>

mathVars == << args, returned >>

workVars == << taskAttempts >>

mainVars == << nInput, lInput, mInput, numElectronsInput, orbitalMode, positions, sizes,
               sampleCount, sampleTarget, sampling, overlayEnabled, overlayCache,
               orbitalUpdateTimer, pendingUpdates, currentSamplingId, lastUIHash, sessions,
               overlayTimers, fitTimers, uiQuiet, onDoneCalls, chunkRuns, doneAt,
               oobStore >>

SessionIds == 1 .. MaxSessions

Min(a, b) == IF a < b THEN a ELSE b

Max(a, b) == IF a > b THEN a ELSE b

Abs(a) == IF a < 0 THEN -a ELSE a

NoSession == [pc |-> "none", n |-> 0, l |-> 0, m |-> 0, numSamples |-> 0]

(* A session whose chain of timers has ended (pc is "done", "stale" or     *)
(* "threw"): no callback holds its closure any more.                       *)
EndedStillArmed(pc) == [NoSession EXCEPT !.pc = "chunk"]

Ended(pc) == [NoSession EXCEPT !.pc = pc]

(* The globals as their declarations leave them, with the debounce timer  *)
(* armed by setup (line 2573).                                             *)
SamplerInit ==
  /\ positions = NullBuffer /\ sizes = NullBuffer
  /\ sampleCount = 0 /\ sampleTarget = 0 /\ sampling = FALSE
  /\ overlayCache = NoCache
  /\ orbitalUpdateTimer = TRUE
  /\ pendingUpdates = 1
  /\ currentSamplingId = 0 /\ lastUIHash = NoHash
  /\ sessions = [s \in SessionIds |-> NoSession]
  /\ overlayTimers = 0
  /\ fitTimers = << >>
  /\ uiQuiet = FALSE
  /\ onDoneCalls = [s \in SessionIds |-> 0]
  /\ chunkRuns = 0
  /\ doneAt = [s \in SessionIds |-> NotDone]
  /\ oobStore = FALSE

MainInit ==
  /\ nInput = 2 /\ lInput = 0 /\ mInput = 0
  /\ numElectronsInput \in {0, MAX_ELECTRONS}
  /\ orbitalMode \in Modes
  /\ overlayEnabled = FALSE
  /\ SamplerInit

NoFit == [type |-> "nofit"]

NoCall == [fn |-> "none"]

RadiusIdle ==
  /\ quantum = [n |-> 1, l |-> 0, m |-> 0]
  /\ cloud = << >>
  /\ stage = "idle"

FitIdle == sampled = << >> /\ fitted = NoFit

MathIdle == args = NoCall /\ returned = NoCall

WorkIdle == taskAttempts = 0

Init ==
  /\ MainInit
  /\ RadiusIdle
  /\ FitIdle
  /\ MathIdle
  /\ WorkIdle


(***************************************************************************)
(* UI event handlers (setupUI).                                            *)
(***************************************************************************)

(* onNumChanged(0) and the count-0 path of createOrbitalFromUI clear the   *)
(* same globals; currentSamplingId is left alone by both.                  *)
ClearBuffer ==
  /\ positions' = NullBuffer
  /\ sizes' = NullBuffer
  /\ sampleCount' = 0
  /\ sampleTarget' = 0
  /\ sampling' = FALSE

(* updateOverlayButtonState: in 'complete' mode the button is disabled and *)
(* overlayEnabled forced off; overlayCache is not touched.                 *)
updateOverlayButtonState(mode, enabled) ==
  IF mode = "complete" THEN FALSE ELSE enabled

(* The field values inputChangedHandler leaves behind, lines 2780-2811.    *)
ValidatedN(n) == IF n < 1 THEN 1 ELSE n

ValidatedL(l, n) ==
  IF l < 0 THEN 0
  ELSE IF l > n - 1 THEN Max(0, n - 1) ELSE l

ValidatedM(m, l) == IF Abs(m) > l THEN 0 ELSE m

ValidatedNe(ne) ==
  IF ne < 0 THEN 0
  ELSE IF ne > MAX_ELECTRONS THEN MAX_ELECTRONS ELSE ne

(* scheduleOrbitalUpdate: clearTimeout of the pending timer, then a new    *)
(* one; at most one is pending.                                            *)
clearTimeoutNoop(pending, armed) == pending

clearTimeout(pending, armed) == IF armed THEN pending - 1 ELSE pending

scheduleOrbitalUpdate ==
  /\ pendingUpdates' = clearTimeout(pendingUpdates, orbitalUpdateTimer) + 1
  /\ orbitalUpdateTimer' = TRUE

(* One 'input' event on a number field: the user has set field f to v,     *)
(* inputChangedHandler runs, and on the n, l, m fields the listener        *)
(* updateOverlayButtonState registered at lines 2970-2972 runs after it.   *)
inputChangedHandler(f, v) ==
  /\ ~uiQuiet
  /\ LET n1  == ValidatedN(IF f = "n" THEN v ELSE nInput)
         l1  == ValidatedL(IF f = "l" THEN v ELSE lInput, n1)
         m1  == ValidatedM(IF f = "m" THEN v ELSE mInput, l1)
         ne1 == ValidatedNe(IF f = "ne" THEN v ELSE numElectronsInput)
     IN  /\ nInput' = n1
         /\ lInput' = l1
         /\ mInput' = m1
         /\ numElectronsInput' = ne1
         /\ IF ne1 = 0
              THEN ClearBuffer
              ELSE UNCHANGED << positions, sizes, sampleCount, sampleTarget, sampling >>
  /\ overlayCache' = NoCache
  /\ overlayEnabled' = IF f \in {"n", "l", "m"}
                         THEN updateOverlayButtonState(orbitalMode, overlayEnabled)
                         ELSE overlayEnabled
  /\ scheduleOrbitalUpdate
  /\ UNCHANGED << orbitalMode, currentSamplingId, lastUIHash, sessions,
                  overlayTimers, fitTimers, uiQuiet >>
  /\ UNCHANGED ghostVars
  /\ UNCHANGED << radiusVars, fitVars, mathVars, workVars >>

(* window.updateOverlayButtonForMode(mode), lines 2963-2968.               *)
updateOverlayButtonForMode(mode) ==
  /\ ~uiQuiet
  /\ orbitalMode' = mode
  /\ overlayEnabled' = updateOverlayButtonState(mode, overlayEnabled)
  /\ overlayCache' = NoCache
  /\ scheduleOrbitalUpdate
  /\ UNCHANGED << uiVars, positions, sizes, sampleCount, sampleTarget, sampling,
                  currentSamplingId, lastUIHash, sessions, overlayTimers,
                  fitTimers, uiQuiet >>
  /\ UNCHANGED ghostVars
  /\ UNCHANGED << radiusVars, fitVars, mathVars, workVars >>

(* The 'input' listener of #modeSelect, lines 2974-2980: no cache reset    *)
(* and no scheduleOrbitalUpdate.                                           *)
modeSelectInput(mode) ==
  /\ ~uiQuiet
  /\ orbitalMode' = mode
  /\ overlayEnabled' = updateOverlayButtonState(mode, overlayEnabled)
  /\ UNCHANGED << uiVars, positions, sizes, sampleCount, sampleTarget, sampling,
                  overlayCache, orbitalUpdateTimer, pendingUpdates, currentSamplingId, lastUIHash,
                  sessions, overlayTimers, fitTimers, uiQuiet >>
  /\ UNCHANGED ghostVars
  /\ UNCHANGED << radiusVars, fitVars, mathVars, workVars >>

(* overlayBtn.mousePressed handler, lines 2997-3024.  The button carries   *)
(* the 'disabled' attribute exactly in 'complete' mode.                    *)
overlayBtnPressed ==
  /\ ~uiQuiet
  /\ orbitalMode # "complete"
  /\ overlayEnabled' = ~overlayEnabled
  /\ IF overlayEnabled' /\ sampleCount > 0 /\ ~sampling
       THEN /\ overlayTimers + Len(fitTimers) < MaxPending
            /\ overlayTimers' = overlayTimers + 1
            /\ UNCHANGED overlayCache
       ELSE /\ overlayCache' = IF ~overlayEnabled' THEN NoCache ELSE overlayCache
            /\ UNCHANGED overlayTimers
  /\ UNCHANGED << uiVars, orbitalMode, positions, sizes, sampleCount, sampleTarget,
                  sampling, orbitalUpdateTimer, pendingUpdates, currentSamplingId, lastUIHash,
                  sessions, fitTimers, uiQuiet >>
  /\ UNCHANGED ghostVars
  /\ UNCHANGED << radiusVars, fitVars, mathVars, workVars >>

(* The user stops: no UI event after this step.                            *)
userStops ==
  /\ ~uiQuiet
  /\ uiQuiet' = TRUE
  /\ UNCHANGED << uiVars, orbitalMode, positions, sizes, sampleCount, sampleTarget,
                  sampling, overlayEnabled, overlayCache, orbitalUpdateTimer, pendingUpdates,
                  currentSamplingId, lastUIHash, sessions, overlayTimers, fitTimers >>
  /\ UNCHANGED ghostVars
  /\ UNCHANGED << radiusVars, fitVars, mathVars, workVars >>

(***************************************************************************)
(* createOrbitalFromUI, run by the debounce timer (lines 2691-2693).       *)
(***************************************************************************)
UIHash(n, l, m, ne, mode) == [n |-> n, l |-> l, m |-> m, ne |-> ne, mode |-> mode]

NewBuffer(len) == [i \in 1 .. len |-> 0]

(* Lines 4837-4838: the quantum numbers createOrbitalFromUI gives up on.   *)
RejectedNever(n, l, m) == FALSE

Rejected(n, l, m) == l >= n \/ Abs(m) > l

(* Line 4840: the request is the one last accepted.                        *)
SameAsLastNever(uiHash, last) == FALSE

SameAsLast(uiHash, last) == uiHash = last

createOrbitalFromUI ==
  /\ orbitalUpdateTimer
  /\ orbitalUpdateTimer' = FALSE
  /\ pendingUpdates' = pendingUpdates - 1
  /\ LET n  == IF nInput < 1 THEN 1 ELSE nInput
         l  == IF lInput < 0 THEN 0 ELSE lInput
         m  == mInput
         ne == IF numElectronsInput < 0 THEN 0
               ELSE IF numElectronsInput > MAX_ELECTRONS THEN MAX_ELECTRONS
               ELSE numElectronsInput
         uiHash == UIHash(n, l, m, ne, orbitalMode)
     IN  /\ nInput' = n
         /\ lInput' = l
         /\ mInput' = m
         /\ numElectronsInput' = ne
         /\ IF Rejected(n, l, m) \/ SameAsLast(uiHash, lastUIHash)
              THEN UNCHANGED << positions, sizes, sampleCount, sampleTarget, sampling,
                                overlayCache, currentSamplingId, lastUIHash, sessions,
                                chunkRuns >>
              ELSE /\ lastUIHash' = uiHash
                   /\ IF ne = 0
                        THEN /\ ClearBuffer
                             /\ overlayCache' = NoCache
                             /\ UNCHANGED << currentSamplingId, sessions, chunkRuns >>
                        ELSE /\ currentSamplingId < MaxSessions
                             /\ currentSamplingId' = currentSamplingId + 1
                             /\ overlayCache' = NoCache
                             /\ positions' = NewBuffer(ne)
                             /\ sizes' = NewBuffer(ne)
                             /\ sampleCount' = 0
                             /\ sampleTarget' = ne
                             /\ sampling' = TRUE
                             /\ chunkRuns' = 0
                             /\ sessions' = [sessions EXCEPT ![currentSamplingId + 1] =
                                   [pc |-> "start", n |-> n, l |-> l, m |-> m,
                                    numSamples |-> ne]]
  /\ UNCHANGED << orbitalMode, overlayEnabled, overlayTimers, fitTimers, uiQuiet >>
  /\ UNCHANGED << onDoneCalls, doneAt, oobStore >>
  /\ UNCHANGED << radiusVars, fitVars, mathVars, workVars >>

(***************************************************************************)
(* computeOverlay (lines 3658-4107): the synchronous part snapshots the    *)
(* buffer and arms a timer; the deferred part reads l and m from the UI,   *)
(* fits and writes overlayCache.                                           *)
(***************************************************************************)

(* cache.type as dispatched on (l, m), lines 3690, 3705, 3835-3836, 3905;  *)
(* for l >= 3 no branch is taken and the type stays null.                  *)
OverlayTypeByL(l, m) ==
  IF l = 0 THEN "s" ELSE IF l = 1 THEN "p" ELSE IF l = 2 THEN "d" ELSE Null

OverlayType(l, m) ==
  IF l = 0 THEN "s"
  ELSE IF l = 1 THEN "p"
  ELSE IF l = 2 THEN (IF m = 0 THEN "dz2" ELSE "d")
  ELSE Null

(* Lines 3659-3682.  The result is the new overlayCache and the new queue  *)
(* of deferred fits; a snapshot records the session whose buffer it copied *)
(* and whether that session was still sampling.                            *)
computeOverlay(enabled, pos, count, samp, sid, cache, fits) ==
  IF ~enabled THEN [cache |-> NoCache, fits |-> fits]
  ELSE IF pos = NullBuffer \/ count <= 0 THEN [cache |-> NoCache, fits |-> fits]
  ELSE [cache |-> cache,
        fits  |-> Append(fits, [sid |-> sid, sampling |-> samp])]

(* The setTimeout(..., 10) callback armed by the overlay button.           *)
overlayTimerFires ==
  /\ overlayTimers > 0
  /\ overlayTimers' = overlayTimers - 1
  /\ LET r == computeOverlay(overlayEnabled, positions, sampleCount, sampling,
                             currentSamplingId, overlayCache, fitTimers)
     IN  /\ overlayCache' = r.cache
         /\ fitTimers' = r.fits
  /\ UNCHANGED << uiVars, orbitalMode, positions, sizes, sampleCount, sampleTarget,
                  sampling, overlayEnabled, orbitalUpdateTimer, pendingUpdates, currentSamplingId,
                  lastUIHash, sessions, uiQuiet >>
  /\ UNCHANGED ghostVars
  /\ UNCHANGED << radiusVars, fitVars, mathVars, workVars >>

(* What the deferred part stores, line 4105: it stores unconditionally.    *)
DeferredWrite(snap, cache, l, m) ==
  [type |-> OverlayType(l, m), sid |-> snap.sid]

(* The setTimeout(..., 8) callback of computeOverlay, lines 3682-4106.     *)
fitTimerFires ==
  /\ fitTimers # << >>
  /\ fitTimers' = Tail(fitTimers)
  /\ overlayCache' = DeferredWrite(Head(fitTimers), overlayCache, lInput, mInput)
  /\ UNCHANGED << uiVars, orbitalMode, positions, sizes, sampleCount, sampleTarget,
                  sampling, overlayEnabled, orbitalUpdateTimer, pendingUpdates, currentSamplingId,
                  lastUIHash, sessions, overlayTimers, uiQuiet >>
  /\ UNCHANGED ghostVars
  /\ UNCHANGED << radiusVars, fitVars, mathVars, workVars >>

(***************************************************************************)
(* sampleOrbitalChunked (lines 5086-5182).                                 *)
(***************************************************************************)

(* The checkpoint at the head of chunk(), line 5101.                       *)
IsSupersededNever(samplingId, current) == FALSE

IsSuperseded(samplingId, current) == samplingId # current

(* The checkpoint at the head of the completion callback, line 4880.       *)
CallbackSupersededAlways(mySamplingId, current) == TRUE

CallbackSuperseded(mySamplingId, current) == mySamplingId # current

(* Line 5103.                                                              *)
StopIndexUnclamped(numSamples, count) == count + CHUNK_SAMPLES

StopIndex(numSamples, count) == Min(numSamples, count + CHUNK_SAMPLES)

(* The while loop of lines 5107-5145 over the outcomes acc of the attempts *)
(* (acc[i] is TRUE when attempt i passes the radius test and one of its 20 *)
(* angular trials): the sample count and the attempts used at loop exit.   *)
RECURSIVE ChunkLoop(_, _, _, _)
ChunkLoop(count, attempts, acc, stopIndex) ==
  IF count < stopIndex /\ attempts < ATTEMPTS_PER_CHUNK
    THEN ChunkLoop(IF acc[attempts + 1] THEN count + 1 ELSE count,
                   attempts + 1, acc, stopIndex)
    ELSE [count |-> count, attempts |-> attempts]

(* Line 5148: the chunk used its whole budget and accepted nothing.        *)
NeedsFallbackFillNever(count, attempts, startCount, numSamples) == FALSE

NeedsFallbackFill(count, attempts, startCount, numSamples) ==
  count < numSamples /\ attempts >= ATTEMPTS_PER_CHUNK /\ count = startCount

(* Line 5147: more samples are wanted after this chunk.                    *)
UnfinishedOneShort(count, numSamples) == count + 1 < numSamples

UnfinishedInclusive(count, numSamples) == count <= numSamples

Unfinished(count, numSamples) == count < numSamples

(* Stores of a chunk into a Float32Array: point slots lo .. hi receive v;  *)
(* a store past the end of a typed array is dropped.                       *)
Store(buf, lo, hi, v) ==
  [i \in 1 .. Len(buf) |-> IF lo <= i /\ i <= hi THEN v ELSE buf[i]]

StoredBy(buf, s) == Cardinality({i \in 1 .. Len(buf) : buf[i] = s})

(* The completion callback of createOrbitalFromUI, lines 4878-4935, run    *)
(* through safeCall.  pushElectronsOutward rescales the points in place    *)
(* (see the radius model below); computeOverlay runs in 'basic' mode when  *)
(* overlays are on.                                                        *)
(* safeCall, lines 2098-2116, and the try/catch around the whole body of   *)
(* the callback, lines 4879-4933: an exception raised by the callback is   *)
(* logged and the chunk returns normally.                                  *)
safeCallRethrows(threw) == IF threw THEN "threw" ELSE "done"

safeCall(threw) == IF threw THEN "caught" ELSE "done"

onDone(s, pos, count, throws) ==
  /\ onDoneCalls' = [onDoneCalls EXCEPT ![s] = @ + 1]
  /\ doneAt' = [doneAt EXCEPT ![s] =
        [sampleCount |-> count, sampleTarget |-> sampleTarget,
         numSamples |-> sessions[s].numSamples,
         stored |-> IF pos = NullBuffer THEN 0 ELSE StoredBy(pos, s)]]
  /\ IF CallbackSuperseded(s, currentSamplingId)
       THEN UNCHANGED << sampling, overlayCache, fitTimers >>
       ELSE /\ sampling' = FALSE
            /\ IF ~throws /\ overlayEnabled /\ orbitalMode = "basic"
                 THEN LET r == computeOverlay(overlayEnabled, pos, count, FALSE,
                                              currentSamplingId, overlayCache, fitTimers)
                      IN  /\ overlayCache' = r.cache
                          /\ fitTimers' = r.fits
                 ELSE UNCHANGED << overlayCache, fitTimers >>

(* The host runs a timer only after the timers of equal or shorter delay   *)
(* that were armed before it.  The start timer of a session (10 ms, line   *)
(* 4936) is armed after every pending timer of the overlay button (10 ms,  *)
(* line 3014) and of computeOverlay (8 ms, line 4106): while the current   *)
(* session has not run a chunk, sampleCount is 0 and neither is armed.     *)
StartAnyOrder(s) == TRUE

StartInOrder(s) ==
  (s = currentSamplingId /\ sessions[s].pc = "start")
    => (overlayTimers = 0 /\ fitTimers = << >>)

(* One execution of chunk() for session s: the first one is run by the     *)
(* session's start timer (lines 4877-4878, 5181), the later ones by the    *)
(* timers of lines 5171-5172.  A store into the cleared (null) buffer      *)
(* raises a TypeError that leaves the timer callback: the session's chain  *)
(* of chunks ends there and nothing has been changed.  throws: a call of   *)
(* lines 4886-4897 (pushElectronsOutward, new Orbital,                     *)
(* createAllInnerOrbitals, fitViewToPoints) raises an exception inside the *)
(* completion callback, which skips the rest of its body.                  *)
chunkCalling(s, acc, throws) ==
  /\ sessions[s].pc \in {"start", "chunk"}
  /\ StartInOrder(s)
  /\ UNCHANGED << uiVars, orbitalMode, overlayEnabled, orbitalUpdateTimer, pendingUpdates,
                  currentSamplingId, lastUIHash, overlayTimers, uiQuiet >>
  /\ UNCHANGED << radiusVars, fitVars, mathVars, workVars >>
  /\ IF IsSuperseded(s, currentSamplingId)
       THEN /\ sessions' = [sessions EXCEPT ![s] = Ended("stale")]
            /\ UNCHANGED << positions, sizes, sampleCount, sampleTarget, sampling,
                            overlayCache, fitTimers >>
            /\ UNCHANGED ghostVars
       ELSE LET numSamples == sessions[s].numSamples
                startCount == sampleCount
                loop       == ChunkLoop(sampleCount, 0, acc,
                                        StopIndex(numSamples, sampleCount))
                fill       == Unfinished(loop.count, numSamples)
                              /\ NeedsFallbackFill(loop.count, loop.attempts,
                                                   startCount, numSamples)
                count      == IF fill THEN numSamples ELSE loop.count
            IN  /\ chunkRuns' = chunkRuns + 1
                /\ IF positions = NullBuffer /\ count > startCount
                     THEN /\ sessions' = [sessions EXCEPT ![s] = Ended("threw")]
                          /\ UNCHANGED << positions, sizes, sampleCount, sampleTarget,
                                          sampling, overlayCache, fitTimers,
                                          onDoneCalls, doneAt, oobStore >>
                     ELSE /\ positions' = IF positions = NullBuffer THEN NullBuffer
                                          ELSE Store(positions, startCount + 1, count, s)
                          /\ sizes' = IF sizes = NullBuffer THEN NullBuffer
                                      ELSE Store(sizes, startCount + 1, count, electronSize)
                          /\ sampleCount' = count
                          /\ oobStore' = (oobStore \/ (count > startCount /\ count > sampleTarget))
                          /\ UNCHANGED sampleTarget
                          /\ IF Unfinished(count, numSamples)
                               THEN /\ sessions' = [sessions EXCEPT ![s].pc = "chunk"]
                                    /\ UNCHANGED << sampling, overlayCache, fitTimers,
                                                    onDoneCalls, doneAt >>
                               ELSE /\ sessions' = [sessions EXCEPT ![s] =
                                                       Ended(safeCall(throws))]
                                    /\ onDone(s, positions', count, throws)

(* The completion callback as the program has it: none of its calls raises. *)
chunk(s, acc) == chunkCalling(s, acc, FALSE)

(***************************************************************************)
(* The event loop: one UI event or one timer callback per step.            *)
(***************************************************************************)
Outcomes == [1 .. ATTEMPTS_PER_CHUNK -> BOOLEAN]

Next ==
  \/ \E e \in UIEvents : inputChangedHandler(e[1], e[2])
  \/ \E mode \in Modes : updateOverlayButtonForMode(mode)
  \/ \E mode \in Modes : modeSelectInput(mode)
  \/ overlayBtnPressed
  \/ createOrbitalFromUI
  \/ \E s \in SessionIds : \E acc \in Outcomes : chunk(s, acc)
  \/ overlayTimerFires
  \/ fitTimerFires

Spec == Init /\ [][Next]_vars

(***************************************************************************)
(* The sampler on its own: number-field events only, overlays never        *)
(* switched on, and a user who may stop for good.  Timers that are due     *)
(* fire: the host runs every pending timer callback eventually.            *)
(***************************************************************************)
SamplerNext ==
  \/ \E e \in SamplerEvents : inputChangedHandler(e[1], e[2])
  \/ userStops
  \/ createOrbitalFromUI
  \/ \E s \in SessionIds : \E acc \in Outcomes : chunk(s, acc)

SamplerSpec ==
  /\ Init
  /\ [][SamplerNext]_vars
  /\ WF_vars(createOrbitalFromUI)
  /\ \A s \in SessionIds : WF_vars(\E acc \in Outcomes : chunk(s, acc))

TimerPending(s) == sessions[s].pc \in {"start", "chunk"}

(***************************************************************************)
(* The sampler with a completion callback that may fail: any of the calls  *)
(* the callback makes may raise an exception.  Timers that are due fire.   *)
(***************************************************************************)
FaultEvents ==
  ({"l"} \X {0, 1}) \cup ({"ne"} \X {0, MAX_ELECTRONS})

FaultNext ==
  \/ \E e \in FaultEvents : inputChangedHandler(e[1], e[2])
  \/ userStops
  \/ createOrbitalFromUI
  \/ \E s \in SessionIds : \E acc \in Outcomes : \E throws \in BOOLEAN :
        chunkCalling(s, acc, throws)

FaultSpec ==
  /\ Init
  /\ [][FaultNext]_vars
  /\ WF_vars(createOrbitalFromUI)
  /\ \A s \in SessionIds :
       WF_vars(\E acc \in Outcomes : \E throws \in BOOLEAN : chunkCalling(s, acc, throws))

(* Nothing is left to run: the user has stopped and no timer is pending.   *)
Quiescent ==
  /\ uiQuiet
  /\ ~orbitalUpdateTimer
  /\ \A s \in SessionIds : ~TimerPending(s)
  /\ overlayTimers = 0
  /\ fitTimers = << >>

(***************************************************************************)
(* Requests: createOrbitalFromUI on fields whose contents were not         *)
(* written by inputChangedHandler (the page's own initial values, which    *)
(* setup hands to createOrbitalFromUI through the timer of line 2573).     *)
(***************************************************************************)
RawN == {0, 1, 2}

RawL == {-1, 0, 1, 2}

RawM == {-1, 0, 1}

RawNe == {-1, 0, MAX_ELECTRONS, MAX_ELECTRONS + 1}

RequestEvents ==
  ({"n"} \X RawN) \cup ({"l"} \X RawL) \cup ({"m"} \X RawM) \cup ({"ne"} \X RawNe)

RequestInit ==
  /\ nInput \in RawN /\ lInput \in RawL /\ mInput \in RawM
  /\ numElectronsInput \in {MAX_ELECTRONS, MAX_ELECTRONS + 1}
  /\ orbitalMode = "basic"
  /\ overlayEnabled = FALSE
  /\ SamplerInit
  /\ RadiusIdle
  /\ FitIdle
  /\ MathIdle
  /\ WorkIdle

RequestNext ==
  \/ \E e \in RequestEvents : inputChangedHandler(e[1], e[2])
  \/ createOrbitalFromUI
  \/ \E s \in SessionIds : \E acc \in Outcomes : chunk(s, acc)

RequestSpec == RequestInit /\ [][RequestNext]_vars

(***************************************************************************)
(* Radius model: the numbers a session stores and what pushElectronsOutward *)
(* makes of them.  Lengths are in hundredths of a unit and factors in      *)
(* hundredths, so 24.0 is 2400 and 1.15 is 115; a0 is in units.  A point   *)
(* is its 3-D radius r and its direction (c, s) = (cos, sin) of the polar  *)
(* angle, from which its height z and its distance xy from the z axis      *)
(* follow; r0 remembers the radius the point was given first.              *)
(***************************************************************************)
CloudSize == 2

a0 == 40

NUCLEUS_RADIUS == 1800

ELECTRON_MIN_GAP == 600

ELECTRON_DISTANCE_MULTIPLIER == 160

GLOBAL_RADIAL_PUSH == 115

EQ_RADIAL_PUSH == 135

NEAR_NUCLEAR_PUSH_MULT == 200

NEAR_THRESHOLD_MULT == 150

NEAR_THRESHOLD_ABS == 8000

NEAR_THRESHOLD_EQ_ABS == 12000

minR == NUCLEUS_RADIUS + ELECTRON_MIN_GAP

(* Draws of the random source: directions as (cos, sin) of the polar       *)
(* angle, sums of exponentials, cube roots of a uniform draw in [0, 1).    *)
Directions ==
  { [c |-> 100, s |-> 0], [c |-> 0, s |-> 100], [c |-> -60, s |-> 80] }

SumExpValues == {0, 60, 400}

CubeRoots == {0, 99}

QuantumStates ==
  { [n |-> 1, l |-> 0, m |-> 0], [n |-> 2, l |-> 1, m |-> 0],
    [n |-> 3, l |-> 2, m |-> 0], [n |-> 3, l |-> 2, m |-> 1] }

RawRadii == {0, 100, 2400, 10000}

MakePoint(r, dir, src) == [r |-> r, c |-> dir.c, s |-> dir.s, r0 |-> r, src |-> src]

PointZ(pt) == (pt.r * pt.c) \div 100

PointXY(pt) == (pt.r * pt.s) \div 100

(* radialLScale, lines 5344-5348.                                          *)
radialLScaleNoFloor(l) == IF l <= 0 THEN 100 ELSE 100 - 6 * l

radialLScale(l) == IF l <= 0 THEN 100 ELSE Max(60, 100 - 6 * l)

(* r of one attempt, lines 5095-5096 and 5118: thetaScale * sumExp *       *)
(* radialScale.                                                            *)
SampleRadius(n, l, sumExp) ==
  (((n * a0) \div 2) * sumExp * radialLScale(l) * ELECTRON_DISTANCE_MULTIPLIER) \div 10000

(* The radius test of an attempt, line 5119.                               *)
RadiusRejected(r) == r < minR

(* rr of one slot of the fallback fill, lines 5149-5152.                   *)
FillRadius(n, l, c1, c2) ==
  LET rMax == Max(100, n * n * a0 * 180)
      radialScale == (radialLScale(l) * ELECTRON_DISTANCE_MULTIPLIER) \div 100
      rr   == (((rMax * c1) \div 100) * radialScale) \div 100
  IN  IF rr < minR THEN minR + ((rMax - minR) * c2) \div 100 ELSE rr

(* percentile, lines 3062-3068: the element at index                       *)
(* min(length - 1, floor(p * length)) of the sorted copy.                  *)
percentile(arr, p) ==
  IF Len(arr) = 0 THEN 0
  ELSE LET idx == Min(Len(arr) - 1, (p * Len(arr)) \div 100)
       IN  CHOOSE v \in {arr[i] : i \in 1 .. Len(arr)} :
             /\ Cardinality({i \in 1 .. Len(arr) : arr[i] < v}) <= idx
             /\ idx < Cardinality({i \in 1 .. Len(arr) : arr[i] <= v})

RECURSIVE SelectSeqAbs(_, _)
(* posAxial / negAxial of lines 3581-3586: |z| of the points with z >= 0   *)
(* (up = TRUE) or z < 0 (up = FALSE).                                      *)
SelectSeqAbs(pts, up) ==
  IF pts = << >> THEN << >>
  ELSE LET z == PointZ(Head(pts))
           rest == SelectSeqAbs(Tail(pts), up)
       IN  IF up /\ z >= 0 THEN << z >> \o rest
           ELSE IF ~up /\ z < 0 THEN << -z >> \o rest
           ELSE rest

(* Lines 3624, 3641, 3648: the new radius of a point off the origin.       *)
NewRadiusUnclamped(targetMinDistance, r3D, factor) == (r3D * factor) \div 100

NewRadius(targetMinDistance, r3D, factor) ==
  Max(targetMinDistance, (r3D * factor) \div 100)

(* Scaling by s = newR3D / r3D keeps the direction.                        *)
Rescale(pt, newR3D) == [pt EXCEPT !.r = newR3D]

(* The body of the loop of lines 3596-3655 for one point; dir is the       *)
(* direction drawn if the point is re-seeded.  EPS is below the resolution *)
(* of the model: a length is <= EPS exactly when it is 0.                  *)
PushPoint(pt, eqThreshold, globalFactor, equatorialFactor, applyNearMultiplier, nearMultiplier, nearThreshold, nearEqThreshold, dir) ==
  LET isEquatorial == Abs(PointZ(pt)) <= eqThreshold
      nearEq       == applyNearMultiplier /\ isEquatorial /\ pt.r <= nearEqThreshold
      nearPolar    == applyNearMultiplier /\ ~isEquatorial /\ pt.r <= nearThreshold
      factor0      == IF isEquatorial THEN equatorialFactor ELSE globalFactor
      factor       == IF nearEq \/ nearPolar
                        THEN (factor0 * nearMultiplier) \div 100 ELSE factor0
      targetMinDistance ==
                      IF nearEq THEN Max(minR, nearEqThreshold)
                      ELSE IF nearPolar THEN Max(minR, nearThreshold)
                      ELSE minR
  IN  IF applyNearMultiplier
        THEN IF pt.r <= 0
               THEN LET newR == Max(targetMinDistance, factor \div 2)
                    IN  [pt EXCEPT !.r = newR, !.c = 0, !.s = 100]
               ELSE Rescale(pt, NewRadius(targetMinDistance, pt.r, factor))
        ELSE IF PointXY(pt) <= 0 /\ pt.r <= 0
               THEN [pt EXCEPT !.r = minR, !.c = dir.c, !.s = dir.s]
               ELSE Rescale(pt, NewRadius(minR, pt.r, factor))

(* pushElectronsOutward, lines 3578-3656; a threshold parameter of -1      *)
(* stands for null.                                                        *)
pushElectronsOutward(pts, globalFactor, equatorialFactor, applyNearMultiplier, nearMultiplier, nearThresholdParam, nearEquatorialThresholdParam, dirs) ==
  IF Len(pts) <= 0 THEN pts
  ELSE LET t80posRaw == percentile(SelectSeqAbs(pts, TRUE), 80)
           t80negRaw == percentile(SelectSeqAbs(pts, FALSE), 80)
           eqThreshold == Max((20 * Max(t80posRaw, t80negRaw)) \div 100, 100)
           nearThreshold == IF nearThresholdParam >= 0 THEN nearThresholdParam
                            ELSE (minR * NEAR_THRESHOLD_MULT) \div 100
           nearEqThreshold == IF nearEquatorialThresholdParam >= 0
                                THEN nearEquatorialThresholdParam
                                ELSE nearThreshold
       IN  [i \in 1 .. Len(pts) |->
              PushPoint(pts[i], eqThreshold, globalFactor, equatorialFactor,
                        applyNearMultiplier, nearMultiplier, nearThreshold,
                        nearEqThreshold, dirs[i])]

(* One attempt of the sampling loop, lines 5109-5144: the point is stored  *)
(* when the radius test and one of the angular trials pass.                *)
attempt(sumExp, dir, accepted) ==
  /\ stage = "sampling"
  /\ Len(cloud) < CloudSize
  /\ LET r == SampleRadius(quantum.n, quantum.l, sumExp)
     IN  IF RadiusRejected(r) \/ ~accepted
           THEN UNCHANGED << cloud, stage >>
           ELSE /\ cloud' = Append(cloud, MakePoint(r, dir, "acc"))
                /\ stage' = IF Len(cloud) + 1 = CloudSize THEN "full" ELSE "sampling"
  /\ UNCHANGED << quantum, mainVars, fitVars, mathVars, workVars >>

FillDraws == [c1 : CubeRoots, c2 : CubeRoots, dir : Directions]

(* The fallback fill, lines 5149-5162: every remaining slot is filled.     *)
fallbackFill(draws) ==
  /\ stage = "sampling"
  /\ Len(cloud) < CloudSize
  /\ cloud' = cloud \o [i \in 1 .. (CloudSize - Len(cloud)) |->
                 MakePoint(FillRadius(quantum.n, quantum.l, draws[i].c1, draws[i].c2),
                           draws[i].dir, "fill")]
  /\ stage' = "full"
  /\ UNCHANGED << quantum, mainVars, fitVars, mathVars, workVars >>

(* The completion callback on the full buffer, lines 4883-4886.            *)
completion(dirs) ==
  /\ stage = "full"
  /\ LET applyNearDoubling == (quantum.l = 2 /\ quantum.m = 0)
     IN  cloud' = pushElectronsOutward(cloud, GLOBAL_RADIAL_PUSH, EQ_RADIAL_PUSH,
                     applyNearDoubling, NEAR_NUCLEAR_PUSH_MULT,
                     IF applyNearDoubling THEN NEAR_THRESHOLD_ABS ELSE -1,
                     IF applyNearDoubling THEN NEAR_THRESHOLD_EQ_ABS ELSE -1,
                     dirs)
  /\ stage' = "pushed"
  /\ UNCHANGED << quantum, mainVars, fitVars, mathVars, workVars >>

RawPoints == {MakePoint(r, dir, "raw") : r \in RawRadii, dir \in Directions}

(* Either a session about to sample, or a full buffer of arbitrary points  *)
(* handed to pushElectronsOutward.                                         *)
RadiusInit ==
  /\ MainInit
  /\ numElectronsInput = 0
  /\ orbitalMode = "basic"
  /\ quantum \in QuantumStates
  /\ \/ /\ stage = "sampling"
        /\ cloud = << >>
     \/ /\ stage = "full"
        /\ cloud \in UNION {[1 .. k -> RawPoints] : k \in 1 .. CloudSize}
  /\ FitIdle
  /\ MathIdle
  /\ WorkIdle

RadiusNext ==
  \/ \E sumExp \in SumExpValues : \E dir \in Directions : \E accepted \in BOOLEAN :
       attempt(sumExp, dir, accepted)
  \/ \E draws \in [1 .. CloudSize -> FillDraws] : fallbackFill(draws)
  \/ \E dirs \in [1 .. CloudSize -> Directions] : completion(dirs)

RadiusSpec == RadiusInit /\ [][RadiusNext]_vars

(***************************************************************************)
(* Shape fitting: the deferred part of computeOverlay (lines 3682-4105).   *)
(* The snapshot holds points of the radius model, placed in the half       *)
(* plane y = 0, x >= 0.  Extents are in hundredths of a unit, the          *)
(* coordinates entering a square in tenths, unit vectors in thousandths,   *)
(* the radii of the ring in 1/100000 of a unit (its 0.001 margin is 100).  *)
(***************************************************************************)
S_OVERLAY_SCALE == 98

DZ_LOBE_SCALE == 78

LOBE_Z_SHRINK == 100

LOBE_AXIAL_EXTEND == 142

LOBE_Z_OFFSET_MULT == 18

P_PX_AXIAL_BOOST == 115

P_PX_RADIAL_BOOST == 110

LOBE_RADIAL_PERCENTILE_MULT == 54

LOBE_RADIAL_EXTRA_GROW == 84

RING_DEFAULT_INNER_DIAM == 12000

RING_DEFAULT_OUTER_DIAM == 18000

DZ2_RING_SHRINK_FACTOR == 92

D_RADIAL_SHRINK_FACTOR == 50

D_RADIAL_EXPAND_FACTOR == 115

DZ2_AXIAL_OFFSET_SCALE == 75

OVERLAY_PERCENTILE == 95

OVERLAY_RING_INNER_P == 10

OVERLAY_RING_OUTER_P == 90

RingScale == 1000

(* Math.sqrt on the integers: the floor of the square root.                *)
RECURSIVE SqrtSearch(_, _, _)
SqrtSearch(v, lo, hi) ==
  IF lo >= hi THEN lo
  ELSE LET mid == (lo + hi + 1) \div 2
       IN  IF mid * mid <= v THEN SqrtSearch(v, mid, hi) ELSE SqrtSearch(v, lo, mid - 1)

Sqrt(v) == IF v <= 0 THEN 0 ELSE SqrtSearch(v, 0, Min(v, 46340))

(* x and z of a point of the snapshot, in tenths.                          *)
CoordX(pt) == PointXY(pt) \div 10

CoordZ(pt) == PointZ(pt) \div 10

Scaled(v, factor) == (v * factor) \div 100

RECURSIVE SumX(_, _)
SumX(pts, idxs) ==
  IF idxs = << >> THEN 0 ELSE CoordX(pts[Head(idxs)]) + SumX(pts, Tail(idxs))

RECURSIVE SumZ(_, _)
SumZ(pts, idxs) ==
  IF idxs = << >> THEN 0 ELSE CoordZ(pts[Head(idxs)]) + SumZ(pts, Tail(idxs))

RECURSIVE Members(_, _, _)
(* clusters[c] of lines 3146-3148: the indices assigned to c, in order.    *)
Members(assignments, c, i) ==
  IF i > Len(assignments) THEN << >>
  ELSE (IF assignments[i] = c THEN << i >> ELSE << >>) \o Members(assignments, c, i + 1)

(* Squared distance of lines 3100-3103.                                    *)
Sq(v) == v * v

Dist2(pt, centroid) == Sq(CoordX(pt) - centroid[1]) + Sq(CoordZ(pt) - centroid[2])

Centroid(pt) == << CoordX(pt), CoordZ(pt) >>

(* Lines 3096-3110: the first cluster at the least distance.               *)
FirstLeast(dists) ==
  CHOOSE c \in 1 .. Len(dists) :
    /\ \A d \in 1 .. Len(dists) : dists[c] <= dists[d]
    /\ \A d \in 1 .. (c - 1) : dists[d] > dists[c]

RECURSIVE Dists(_, _)
Dists(pt, centroids) ==
  IF centroids = << >> THEN << >>
  ELSE << Dist2(pt, Head(centroids)) >> \o Dists(pt, Tail(centroids))

Nearest(pt, centroids) == FirstLeast(Dists(pt, centroids))

Copies(pt, k) == [i \in 1 .. k |-> pt]

RECURSIVE Assign(_, _, _)
(* The assignment pass of lines 3094-3116, from point i on.                *)
Assign(pts, centroids, i) ==
  IF i > Len(pts) THEN << >>
  ELSE << Nearest(pts[i], centroids) >> \o Assign(pts, centroids, i + 1)

(* Lines 3131-3139: the mean of a cluster, or a drawn point for an empty   *)
(* one.                                                                    *)
MeanOf(pts, idxs, reseed) ==
  IF Len(idxs) > 0
    THEN << SumX(pts, idxs) \div Len(idxs), SumZ(pts, idxs) \div Len(idxs) >>
    ELSE Centroid(pts[reseed])

RECURSIVE MoveCentroids(_, _, _, _)
(* The update pass of lines 3118-3140, from cluster c on; reseed is the    *)
(* index drawn for a cluster left empty.                                   *)
MoveCentroids(pts, assignments, reseed, c) ==
  IF c > 4 THEN << >>
  ELSE << MeanOf(pts, Members(assignments, c, 1), reseed) >>
         \o MoveCentroids(pts, assignments, reseed, c + 1)

RECURSIVE Lloyd(_, _, _, _, _)
RECURSIVE LloydStep(_, _, _, _, _, _)
(* The loop of lines 3091-3143.                                            *)
Lloyd(pts, centroids, assignments, reseed, iter) ==
  IF iter <= 0 THEN assignments
  ELSE LloydStep(pts, Len(centroids), assignments, Assign(pts, centroids, 1), reseed, iter)

LloydStep(pts, k, assignments, next, reseed, iter) ==
  IF next # assignments
    THEN Lloyd(pts, SubSeq(MoveCentroids(pts, next, reseed, 1), 1, k), next, reseed, iter - 1)
    ELSE next

ClustersNonEmpty(k, assignments) ==
  SelectSeq([c \in 1 .. k |-> Members(assignments, c, 1)], LAMBDA idxs : idxs # << >>)

Clusters(k, assignments) == [c \in 1 .. k |-> Members(assignments, c, 1)]

RECURSIVE LloydPasses(_, _, _, _, _)
RECURSIVE LloydPassesStep(_, _, _, _, _, _)
(* The number of passes the loop of lines 3091-3143 makes.                 *)
LloydPasses(pts, centroids, assignments, reseed, iter) ==
  IF iter <= 0 THEN 0
  ELSE LloydPassesStep(pts, Len(centroids), assignments, Assign(pts, centroids, 1),
                       reseed, iter)

LloydPassesStep(pts, k, assignments, next, reseed, iter) ==
  IF next # assignments
    THEN 1 + LloydPasses(pts, SubSeq(MoveCentroids(pts, next, reseed, 1), 1, k), next,
                         reseed, iter - 1)
    ELSE 1

(* kmeans, lines 3070-3151; seeds are the indices drawn for the initial    *)
(* centroids.                                                              *)
kmeans(pts, k, seeds, reseed, maxIter) ==
  IF Len(pts) <= 0 THEN << >>
  ELSE Clusters(k, Lloyd(pts, [c \in 1 .. k |-> Centroid(pts[seeds[c]])],
                         Copies(1, Len(pts)), reseed, maxIter))

(* axisUnit of a cluster, lines 3722-3740 and 3963-3979.                   *)
UnitVector(sx, sz, len) ==
  << (sx * 1000) \div (IF len = 0 THEN 10 ELSE len), 0,
     (sz * 1000) \div (IF len = 0 THEN 10 ELSE len) >>

AxisOf(sx, sz) == UnitVector(sx, sz, Sqrt(Sq(sx) + Sq(sz)))

ClusterAxis(pts, idxs) == AxisOf(SumX(pts, idxs) \div Len(idxs), SumZ(pts, idxs) \div Len(idxs))

(* t and the distance from the axis, lines 3745-3748; |t| and the          *)
(* distance are in hundredths.                                             *)
Along(pt, axisUnit) == (CoordX(pt) * axisUnit[1] + CoordZ(pt) * axisUnit[3]) \div 1000

AxialOf(pt, axisUnit) == 10 * Abs(Along(pt, axisUnit))

Off(pt, t) == 10 * Sqrt(Max(0, Sq(CoordX(pt)) + Sq(CoordZ(pt)) - Sq(t)))

RadialOf(pt, axisUnit) == Off(pt, Along(pt, axisUnit))

AxialVals(pts, idxs, axisUnit) == [j \in 1 .. Len(idxs) |-> AxialOf(pts[idxs[j]], axisUnit)]

RadialVals(pts, idxs, axisUnit) == [j \in 1 .. Len(idxs) |-> RadialOf(pts[idxs[j]], axisUnit)]

AbsX(pt) == Abs(PointXY(pt))

AbsZ(pt) == Abs(PointZ(pt))

AllAbsX(pts) == [i \in 1 .. Len(pts) |-> AbsX(pts[i])]

AllAbsZ(pts) == [i \in 1 .. Len(pts) |-> AbsZ(pts[i])]

AllRadius(pts) == [i \in 1 .. Len(pts) |-> pts[i].r]

(* l === 0, lines 3690-3703.                                               *)
FitS(pts) ==
  [r95 |-> Max(50, Scaled(percentile(AllRadius(pts), OVERLAY_PERCENTILE),
                          S_OVERLAY_SCALE))]

Lobe(axisUnit, t95, r95) == [axisUnit |-> axisUnit, t95 |-> t95, r95 |-> r95]

(* The lobe of one cluster, lines 3750-3757.                               *)
LobeAround(pts, idxs, axisUnit) ==
  Lobe(axisUnit,
       Max(1, percentile(AxialVals(pts, idxs, axisUnit), OVERLAY_PERCENTILE)),
       Max(1, percentile(RadialVals(pts, idxs, axisUnit), OVERLAY_PERCENTILE)))

ClusterLobe(pts, idxs) == LobeAround(pts, idxs, ClusterAxis(pts, idxs))

RECURSIVE ClusterLobes(_, _)
(* lobesComputed of lines 3716-3757: a cluster of fewer than 6 gives none. *)
ClusterLobes(pts, clusters) ==
  IF clusters = << >> THEN << >>
  ELSE (IF Len(Head(clusters)) < 6 THEN << >> ELSE << ClusterLobe(pts, Head(clusters)) >>)
         \o ClusterLobes(pts, Tail(clusters))

(* Lines 3774-3783: index of the first lobe most aligned with x.           *)
BestAligned(lobes) ==
  CHOOSE i \in 1 .. Len(lobes) :
    /\ \A j \in 1 .. Len(lobes) : Abs(lobes[j].axisUnit[1]) <= Abs(lobes[i].axisUnit[1])
    /\ \A j \in 1 .. (i - 1) : Abs(lobes[j].axisUnit[1]) < Abs(lobes[i].axisUnit[1])

(* Lines 3759-3772: the two lobes along x added when fewer than two were   *)
(* found.                                                                  *)
PxLobes(t95px, r95px) ==
  << Lobe(<< 1000, 0, 0 >>, t95px, r95px), Lobe(<< -1000, 0, 0 >>, t95px, r95px) >>

PxFromAll(pts) ==
  PxLobes(Max(1, Scaled(percentile(AllAbsX(pts), OVERLAY_PERCENTILE), P_PX_AXIAL_BOOST)),
          Max(1, Scaled(percentile(AllAbsZ(pts), OVERLAY_PERCENTILE), P_PX_RADIAL_BOOST)))

LobesComputed(pts, found) == IF Len(found) < 2 THEN found \o PxFromAll(pts) ELSE found

Mirror(ax) == << -ax[1], -ax[2], -ax[3] >>

(* Lines 3807-3825: every lobe takes the canonical extents; a single lobe  *)
(* is mirrored.                                                            *)
LobesFinal(lobesComputed, best) ==
  [i \in 1 .. Len(lobesComputed) |-> Lobe(lobesComputed[i].axisUnit, best.t95, best.r95)]
    \o (IF Len(lobesComputed) = 1
          THEN << Lobe(Mirror(lobesComputed[1].axisUnit), best.t95, best.r95) >>
          ELSE << >>)

(* Lines 3785-3791; lobesComputed is never empty there, so bestIdx >= 0.   *)
Canonical(lobesComputed) == LobesFinal(lobesComputed, lobesComputed[BestAligned(lobesComputed)])

(* l === 1, lines 3705-3833.                                               *)
FitP(pts, seeds, reseed) ==
  IF Len(pts) < 6
    THEN [lobes |-> PxLobes(800, 200)]
    ELSE [lobes |-> Canonical(LobesComputed(pts,
                      ClusterLobes(pts, kmeans(pts, 2, seeds, reseed, 30))))]

RECURSIVE SelectEquatorial(_, _)
(* radialXYEquatorial, lines 3864-3870.                                    *)
SelectEquatorial(pts, eqThreshold) ==
  IF pts = << >> THEN << >>
  ELSE (IF AbsZ(Head(pts)) <= eqThreshold THEN << AbsX(Head(pts)) >> ELSE << >>)
         \o SelectEquatorial(Tail(pts), eqThreshold)

(* l === 2, m === 0, lines 3836-3904.                                      *)
FitDz2(pts) ==
  LET posAxial == SelectSeqAbs(pts, TRUE)
      negAxial == SelectSeqAbs(pts, FALSE)
      radialXYAll == AllAbsX(pts)
      t95posRaw == percentile(posAxial, OVERLAY_PERCENTILE)
      t95negRaw == percentile(negAxial, OVERLAY_PERCENTILE)
      lobeAxial(raw) ==
        Max(100, Scaled(Scaled(Scaled(raw, DZ_LOBE_SCALE), LOBE_Z_SHRINK), LOBE_AXIAL_EXTEND))
      lobeRadial95 == Scaled(percentile(radialXYAll, OVERLAY_PERCENTILE),
                             LOBE_RADIAL_PERCENTILE_MULT)
      eqThreshold == Max(Scaled(Max(t95posRaw, t95negRaw), 20), 100)
      radialXYEquatorial == SelectEquatorial(pts, eqThreshold)
      inner0 == IF Len(radialXYEquatorial) >= 8
                  THEN Max(minR * RingScale,
                           percentile(radialXYEquatorial, OVERLAY_RING_INNER_P) * RingScale)
                  ELSE (RING_DEFAULT_INNER_DIAM \div 2) * RingScale
      outer0 == IF Len(radialXYEquatorial) >= 8
                  THEN Max(inner0 + 100,
                           percentile(radialXYEquatorial, OVERLAY_RING_OUTER_P) * RingScale)
                  ELSE (RING_DEFAULT_OUTER_DIAM \div 2) * RingScale
      ringInnerRadius == (inner0 \div 100) * DZ2_RING_SHRINK_FACTOR
      ringOuterRadius == (outer0 \div 100) * DZ2_RING_SHRINK_FACTOR
  IN  [t80pos |-> lobeAxial(t95posRaw),
       t80neg |-> lobeAxial(t95negRaw),
       lobeRadial |-> Max(90, Scaled(lobeRadial95, LOBE_RADIAL_EXTRA_GROW)),
       axialOffsetPos |-> Scaled(Scaled(lobeAxial(t95posRaw), LOBE_Z_OFFSET_MULT),
                                 DZ2_AXIAL_OFFSET_SCALE),
       axialOffsetNeg |-> Scaled(Scaled(lobeAxial(t95negRaw), LOBE_Z_OFFSET_MULT),
                                 DZ2_AXIAL_OFFSET_SCALE),
       ring |-> [innerRadius |-> ringInnerRadius,
                 outerRadius |-> ringOuterRadius,
                 majorRadius |-> (ringInnerRadius + ringOuterRadius) \div 2,
                 tubeRadius |-> Max(100 * RingScale,
                                    (ringOuterRadius - ringInnerRadius) \div 2)]]

DLobe(axisUnit, axial, radial) ==
  [axisUnit |-> axisUnit, axial |-> axial, radialMajor |-> radial, radialMinor |-> radial]

FallbackAxes == << << 1000, 0, 0 >>, << -1000, 0, 0 >>, << 0, 1000, 0 >>, << 0, -1000, 0 >> >>

(* globalT95 and globalR95 of lines 3911-3921 and 4017-4028.               *)
GlobalT95(pts) ==
  Max(1, Scaled(percentile(AllAbsZ(pts), OVERLAY_PERCENTILE), 105))

GlobalR95(pts) ==
  Scaled(Scaled(Max(1, Scaled(percentile(AllAbsX(pts), OVERLAY_PERCENTILE), 105)),
                D_RADIAL_SHRINK_FACTOR), D_RADIAL_EXPAND_FACTOR)

RECURSIVE DClusterLobes(_, _)
(* lobes of lines 3954-4012: a cluster of fewer than 4 gives none; a lobe  *)
(* is its axis and the indices of its cluster (its rotation angle is left  *)
(* out).                                                                   *)
DClusterLobes(pts, clusters) ==
  IF clusters = << >> THEN << >>
  ELSE (IF Len(Head(clusters)) < 4 THEN << >>
        ELSE << [axisUnit |-> ClusterAxis(pts, Head(clusters)), idxs |-> Head(clusters)] >>)
         \o DClusterLobes(pts, Tail(clusters))

(* Lines 4014-4040: fewer than four lobes are replaced by four on the      *)
(* fallback axes, without indices.                                         *)
DLobesKept(found) == found

DLobes(found) ==
  IF Len(found) < 4 THEN [a \in 1 .. 4 |-> [axisUnit |-> FallbackAxes[a], idxs |-> << >>]]
  ELSE found

RECURSIVE AxialAll(_, _, _)
(* axialAll of lines 4042-4062; t90 is the t90 of a lobe without indices.  *)
AxialAll(pts, lobes, t90) ==
  IF lobes = << >> THEN << >>
  ELSE (IF Len(Head(lobes).idxs) > 0
          THEN AxialVals(pts, Head(lobes).idxs, Head(lobes).axisUnit)
          ELSE << t90 >>)
         \o AxialAll(pts, Tail(lobes), t90)

RECURSIVE RadialAll(_, _)
(* radialAll of lines 4042-4062: a lobe without indices has no proj_r1_90  *)
(* and no proj_r2_90 and contributes 0.                                    *)
RadialAll(pts, lobes) ==
  IF lobes = << >> THEN << >>
  ELSE (IF Len(Head(lobes).idxs) > 0
          THEN RadialVals(pts, Head(lobes).idxs, Head(lobes).axisUnit)
          ELSE << 0 >>)
         \o RadialAll(pts, Tail(lobes))

(* Lines 4064-4091.                                                        *)
ProcessedLobes(lobes, canonicalAxial, canonicalRadialBase) ==
  [i \in 1 .. Len(lobes) |->
     DLobe(lobes[i].axisUnit, Max(1, canonicalAxial),
           Max(1, Scaled(Scaled(canonicalRadialBase, D_RADIAL_SHRINK_FACTOR),
                         D_RADIAL_EXPAND_FACTOR)))]

DFromLobes(pts, lobes) ==
  ProcessedLobes(lobes,
                 percentile(AxialAll(pts, lobes, GlobalT95(pts)), OVERLAY_PERCENTILE),
                 percentile(RadialAll(pts, lobes), OVERLAY_PERCENTILE))

(* Lines 3938-3952: the clustering is run again when a cluster is small;   *)
(* seeds2 are the indices drawn by the second call.                        *)
DClusters(pts, first, seeds2, reseed) ==
  IF \E c \in 1 .. Len(first) : Len(first[c]) < Max(4, (Len(pts) * 2) \div 100)
    THEN kmeans(pts, 4, seeds2, reseed, 60)
    ELSE first

DFallback(globalT95, globalR95) ==
  [a \in 1 .. 4 |-> DLobe(FallbackAxes[a], globalT95, globalR95)]

(* l === 2, m # 0, lines 3905-4101.                                        *)
FitD(pts, seeds, seeds2, reseed) ==
  IF Len(pts) < 8
    THEN [lobes |-> DFallback(GlobalT95(pts), GlobalR95(pts))]
    ELSE [lobes |-> DFromLobes(pts, DLobes(DClusterLobes(pts,
                      DClusters(pts, kmeans(pts, 4, seeds, reseed, 40), seeds2, reseed))))]

NoData == [none |-> TRUE]

(* The descriptor the deferred part stores, lines 3682-4105: for l >= 3    *)
(* no branch is taken and cache stays { type: null, data: null }.          *)
Descriptor(pts, l, m, seeds, seeds2, reseed) ==
  [type |-> OverlayType(l, m),
   data |-> IF l = 0 THEN FitS(pts)
            ELSE IF l = 1 THEN FitP(pts, seeds, reseed)
            ELSE IF l = 2 /\ m = 0 THEN FitDz2(pts)
            ELSE IF l = 2 THEN FitD(pts, seeds, seeds2, reseed)
            ELSE NoData]

(* The samples a session may leave in its buffer: radii the radius test    *)
(* accepts, in any drawn direction.                                        *)
FitDirections == Directions \cup {[c |-> -100, s |-> 0]}

FitRadii == {3000, 60000}

FitKinds == {MakePoint(r, dir, "acc") : r \in FitRadii, dir \in FitDirections}

FitCopies == {1, 6, 8}

FitExtra == {0, 1, 2}

(* Clouds of four groups of four points, one group in each direction.      *)
FourLobeDirections ==
  << [c |-> 100, s |-> 0], [c |-> 0, s |-> 100], [c |-> -60, s |-> 80], [c |-> -100, s |-> 0] >>

RECURSIVE FourGroups(_, _)
FourGroups(r, g) ==
  IF g > 4 THEN << >>
  ELSE Copies(MakePoint(r, FourLobeDirections[g], "acc"), 4) \o FourGroups(r, g + 1)

FourLobes == {FourGroups(r, 1) : r \in FitRadii}

FitQuantum == QuantumStates \cup {[n |-> 4, l |-> 3, m |-> 0]}

(* A session with overlays on in 'basic' mode has filled its buffer; the   *)
(* fields still hold its quantum numbers.                                  *)
FitInit ==
  /\ quantum \in FitQuantum
  /\ nInput = quantum.n /\ lInput = quantum.l /\ mInput = quantum.m
  /\ \/ \E a \in FitKinds, b \in FitKinds, j \in FitCopies, k \in FitExtra :
          /\ cloud = Copies(a, j) \o Copies(b, k)
          /\ numElectronsInput = j + k
     \/ /\ quantum.l = 2 /\ quantum.m # 0
        /\ cloud \in FourLobes
        /\ numElectronsInput = Len(cloud)
  /\ stage = "full"
  /\ orbitalMode = "basic"
  /\ overlayEnabled = TRUE
  /\ SamplerInit
  /\ FitIdle
  /\ MathIdle
  /\ WorkIdle

(* The completion callback, lines 4883-4886 and 4925-4931: the buffer is   *)
(* pushed outward and computeOverlay snapshots it (lines 3669-3680; every  *)
(* point is taken while there are fewer than 3000).                        *)
completionFit(dir) ==
  /\ stage = "full"
  /\ sampled = << >>
  /\ overlayEnabled /\ orbitalMode = "basic"
  /\ LET applyNearDoubling == (quantum.l = 2 /\ quantum.m = 0)
         pushed == pushElectronsOutward(cloud, GLOBAL_RADIAL_PUSH, EQ_RADIAL_PUSH,
                     applyNearDoubling, NEAR_NUCLEAR_PUSH_MULT,
                     IF applyNearDoubling THEN NEAR_THRESHOLD_ABS ELSE -1,
                     IF applyNearDoubling THEN NEAR_THRESHOLD_EQ_ABS ELSE -1,
                     [i \in 1 .. Len(cloud) |-> dir])
     IN  /\ cloud' = pushed
         /\ sampled' = pushed
  /\ stage' = "pushed"
  /\ UNCHANGED << quantum, fitted, mainVars, mathVars, workVars >>

SeedIndices(pts) == {i \in 1 .. Len(pts) : \A j \in 1 .. (i - 1) : pts[j] # pts[i]}

(* The deferred part of computeOverlay, lines 3682-4105, with l and m read *)
(* from the fields when it runs.                                           *)
deferredFit(seeds, seeds2, reseed) ==
  /\ sampled # << >>
  /\ fitted = NoFit
  /\ fitted' = Descriptor(sampled, lInput, mInput, seeds, seeds2, reseed)
  /\ UNCHANGED << sampled, radiusVars, mainVars, mathVars, workVars >>

FitNext ==
  \/ \E dir \in Directions : completionFit(dir)
  \/ \E seeds \in [1 .. 4 -> SeedIndices(sampled)] :
       \E reseed \in SeedIndices(sampled) :
         deferredFit(seeds, [c \in 1 .. 4 |-> seeds[5 - c]], reseed)

FitSpec == FitInit /\ [][FitNext]_vars

(***************************************************************************)
(* Numeric functions (lines 5200-5242 and 5344-5348), evaluated on exact   *)
(* rationals: a number is a fraction [n, d] in lowest terms with d > 0.    *)
(* The arguments x are cosines whose sine is rational too, so that the     *)
(* square root of line 5219 is exact; the rounding of the floating-point   *)
(* operations is not modelled.                                             *)
(***************************************************************************)
MaxDegree == 3

MaxScaleL == 12

RECURSIVE GCD(_, _)
GCD(a, b) == IF b = 0 THEN a ELSE GCD(b, a % b)

Rat(n, d) ==
  LET g == GCD(Abs(n), Abs(d))
      sgn == IF d < 0 THEN -1 ELSE 1
  IN  [n |-> sgn * (n \div g), d |-> sgn * (d \div g)]

RatInt(k) == [n |-> k, d |-> 1]

RatMul(p, q) ==
  LET g1 == GCD(Abs(p.n), q.d)
      g2 == GCD(Abs(q.n), p.d)
  IN  Rat((p.n \div g1) * (q.n \div g2), (p.d \div g2) * (q.d \div g1))

RatSub(p, q) ==
  LET g == GCD(p.d, q.d)
  IN  Rat(p.n * (q.d \div g) - q.n * (p.d \div g), (p.d \div g) * q.d)

RatDiv(p, k) == RatMul(p, [n |-> 1, d |-> k])

RatMax(p, q) == IF p.n * q.d >= q.n * p.d THEN p ELSE q

(* sqrt of a fraction in lowest terms whose terms are perfect squares.     *)
RatSqrt(p) == [n |-> Sqrt(p.n), d |-> Sqrt(p.d)]

(* cos(theta) of line 5201: the cosines of the Pythagorean angles.         *)
Cosines ==
  {RatInt(0), RatInt(1), RatInt(-1)}
    \cup {Rat(s * a, 5) : a \in {3, 4}, s \in {-1, 1}}
    \cup {Rat(s * a, 13) : a \in {5, 12}, s \in {-1, 1}}
    \cup {Rat(s * a, 17) : a \in {8, 15}, s \in {-1, 1}}

(* Lines 5220-5223: pmm *= -fact * somx2, fact += 2.0, for i = 1 .. m.     *)
pmmStepUnsigned(pmm, fact, somx2) == RatMul(pmm, RatMul(RatInt(fact), somx2))

pmmStep(pmm, fact, somx2) == RatMul(pmm, RatMul(RatInt(-fact), somx2))

RECURSIVE pmmLoop(_, _, _, _, _)
pmmLoop(i, m, pmm, fact, somx2) ==
  IF i <= m THEN pmmLoop(i + 1, m, pmmStep(pmm, fact, somx2), fact + 2, somx2)
  ELSE pmm

(* Lines 5217-5224.                                                        *)
Pmm(m, x) ==
  IF m > 0
    THEN pmmLoop(1, m, RatInt(1), 1,
                 RatSqrt(RatMax(RatInt(0), RatSub(RatInt(1), RatMul(x, x)))))
    ELSE RatInt(1)

(* Line 5236: one step of the upward recurrence in the degree.             *)
plnew(ll, m, x, plm, plmPrev) ==
  RatDiv(RatSub(RatMul(RatMul(RatInt(2 * ll - 1), x), plm),
                RatMul(RatInt(ll + m - 1), plmPrev)),
         ll - m)

(* Lines 5235-5239.                                                        *)
RECURSIVE plmLoop(_, _, _, _, _, _)
plmLoop(ll, l, m, x, plmPrev, plm) ==
  IF ll <= l THEN plmLoop(ll + 1, l, m, x, plm, plnew(ll, m, x, plm, plmPrev))
  ELSE plm

(* Lines 5228-5241, from pmm on.                                           *)
FromPmm(l, m, x, pmm, pmmp1) ==
  IF l = m THEN pmm
  ELSE IF l = m + 1 THEN pmmp1
  ELSE plmLoop(m + 2, l, m, x, pmm, pmmp1)

PmmPlus1(m, x, pmm) == RatMul(RatMul(x, RatInt(2 * m + 1)), pmm)

LegendreFrom(l, m, x, pmm) == FromPmm(l, m, x, pmm, PmmPlus1(m, x, pmm))

associatedLegendre(l, m, x) ==
  IF m > l THEN RatInt(0) ELSE LegendreFrom(l, m, x, Pmm(m, x))

(* A call of associatedLegendre, as angularProb makes it (line 5203) with  *)
(* mm = abs(m) of any order.                                               *)
callAssociatedLegendre(l, m, x) ==
  /\ args' = [fn |-> "associatedLegendre", l |-> l, m |-> m, x |-> x]
  /\ returned' = associatedLegendre(l, m, x)
  /\ UNCHANGED << mainVars, radiusVars, fitVars, workVars >>

(* A call of radialLScale (lines 5096, 5119): the result in hundredths.    *)
callRadialLScale(l) ==
  /\ args' = [fn |-> "radialLScale", l |-> l]
  /\ returned' = radialLScale(l)
  /\ UNCHANGED << mainVars, radiusVars, fitVars, workVars >>

MathInit ==
  /\ MainInit
  /\ RadiusIdle
  /\ FitIdle
  /\ MathIdle
  /\ WorkIdle

MathNext ==
  \/ \E l \in 0 .. MaxDegree : \E m \in 0 .. (MaxDegree + 1) : \E x \in Cosines :
        callAssociatedLegendre(l, m, x)
  \/ \E l \in (-1) .. MaxScaleL : callRadialLScale(l)

MathSpec == MathInit /\ [][MathNext]_vars

(***************************************************************************)
(* Work per task: the rejection-sampling attempts one timer callback makes *)
(* before it returns to the host.  A chunk runs the loop of lines          *)
(* 5107-5145; the last chunk of a session also runs the completion         *)
(* callback, which in 'complete' mode samples every inner orbital          *)
(* (lines 4893-4895, 4939-4982) with sampleOrbitalForObject.  Counts are   *)
(* the source's own (unscaled) values.                                     *)
(***************************************************************************)
ATTEMPTS_PER_CHUNK_SRC == 25000

CHUNK_SAMPLES_SRC == 1500

MAX_ELECTRONS_SRC == 30000

MAX_INNER_ELECTRONS == 8000

MIN_INNER_ELECTRONS == 800

AUFBAU_ORDER ==
  << << 1, 0 >>, << 2, 0 >>, << 2, 1 >>, << 3, 0 >>, << 3, 1 >>, << 4, 0 >>,
     << 3, 2 >>, << 4, 1 >>, << 5, 0 >>, << 4, 2 >>, << 5, 1 >>, << 6, 0 >>,
     << 4, 3 >>, << 5, 2 >>, << 6, 1 >>, << 7, 0 >>, << 5, 3 >>, << 6, 2 >>,
     << 7, 1 >> >>

(* Lines 1942-1948: the index of (n, l) in AUFBAU_ORDER, 0 when absent.    *)
RECURSIVE TargetIndex(_, _, _)
TargetIndex(i, n, l) ==
  IF i > Len(AUFBAU_ORDER) THEN 0
  ELSE IF AUFBAU_ORDER[i] = << n, l >> THEN i
  ELSE TargetIndex(i + 1, n, l)

Subshell(n, l) == Copies([n |-> n, main |-> FALSE], 2 * l + 1)

(* Lines 1955-1962: the subshells before the target, those of a shell      *)
(* above the target's left out.                                            *)
RECURSIVE AufbauBefore(_, _, _)
AufbauBefore(i, idx, targetN) ==
  IF i >= idx THEN << >>
  ELSE (IF AUFBAU_ORDER[i][1] > targetN THEN << >>
        ELSE Subshell(AUFBAU_ORDER[i][1], AUFBAU_ORDER[i][2]))
       \o AufbauBefore(i + 1, idx, targetN)

(* getAllInnerOrbitalsSimple, lines 1974-1986.                             *)
RECURSIVE SimpleBefore(_, _, _, _)
SimpleBefore(n, l, targetN, targetL) ==
  IF n > targetN THEN << >>
  ELSE IF l >= (IF n < targetN THEN n ELSE targetL)
    THEN SimpleBefore(n + 1, 0, targetN, targetL)
  ELSE Subshell(n, l) \o SimpleBefore(n, l + 1, targetN, targetL)

(* getAllInnerOrbitalsAufbau: each orbital as its shell n and whether it   *)
(* is the target orbital itself.                                           *)
OrbitalsBefore(idx, targetN, targetL) ==
  IF idx = 0 THEN SimpleBefore(1, 0, targetN, targetL)
  ELSE AufbauBefore(1, idx, targetN)

getAllInnerOrbitalsAufbau(targetN, targetL) ==
  Append(OrbitalsBefore(TargetIndex(1, targetN, targetL), targetN, targetL),
         [n |-> targetN, main |-> TRUE])

(* Lines 4954-4961.                                                        *)
scaleFactor(shellDistance) ==
  IF shellDistance = 0 THEN 12
  ELSE IF shellDistance = 1 THEN 14
  ELSE IF shellDistance = 2 THEN 16
  ELSE 18

(* Lines 4962-4964.                                                        *)
ShellBoost(n, count) ==
  IF n = 1 THEN count * 2
  ELSE IF n = 2 THEN (count * 3) \div 2
  ELSE count

(* Lines 4951-4967: innerElectronCount of one orbital.                     *)
RawInnerCount(orb, outerN, numElectrons, base) ==
  IF orb.main THEN Min(MAX_INNER_ELECTRONS, numElectrons \div 4)
  ELSE ShellBoost(orb.n, (base * scaleFactor(outerN - orb.n)) \div 10)

innerElectronCount(orb, outerN, numElectrons, base) ==
  Max(MIN_INNER_ELECTRONS,
      Min(RawInnerCount(orb, outerN, numElectrons, base), MAX_INNER_ELECTRONS))

(* Line 4944.                                                              *)
baseElectronCount(numElectrons, totalOrbitals) ==
  Max(MIN_INNER_ELECTRONS, (numElectrons * 3) \div (2 * totalOrbitals))

(* The loop of sampleOrbitalForObject, lines 5000-5041: it ends when       *)
(* numSamples attempts have been accepted or maxAttempts made.  rejects    *)
(* is the number of attempts the draws reject before the last acceptance.  *)
ObjectAttempts(numSamples, rejects) ==
  Min(ATTEMPTS_PER_CHUNK_SRC * 5, numSamples + rejects)

(* The attempts of createAllInnerOrbitals, the loop of lines 4946-4974.    *)
RECURSIVE InnerAttempts(_, _, _, _, _, _)
InnerAttempts(i, orbs, outerN, numElectrons, base, rejects) ==
  IF i > Len(orbs) THEN 0
  ELSE ObjectAttempts(innerElectronCount(orbs[i], outerN, numElectrons, base), rejects)
       + InnerAttempts(i + 1, orbs, outerN, numElectrons, base, rejects)

createAllInnerOrbitals(orbs, outerN, numElectrons, rejects) ==
  InnerAttempts(1, orbs, outerN, numElectrons,
                baseElectronCount(numElectrons, Len(orbs)), rejects)

(* Lines 4893-4895: the attempts made inside the completion callback.      *)
CallbackAttempts(mode, q, numElectrons, rejects) ==
  IF mode = "complete" /\ q.n > 1
    THEN createAllInnerOrbitals(getAllInnerOrbitalsAufbau(q.n, q.l), q.n,
                                numElectrons, rejects)
    ELSE 0

(* The attempts a chunk can use, line 5107: at least one, at most the      *)
(* budget.                                                                 *)
ChunkAttempts == {1, CHUNK_SAMPLES_SRC, ATTEMPTS_PER_CHUNK_SRC}

RejectCounts == {0, 1000, 200000}

WorkQuantum ==
  QuantumStates \cup { [n |-> 2, l |-> 0, m |-> 0], [n |-> 5, l |-> 4, m |-> 0] }

(* A chunk that leaves the buffer unfilled and re-arms its timer.          *)
chunkTask(used) ==
  /\ stage = "sampling"
  /\ taskAttempts' = used
  /\ UNCHANGED << mainVars, radiusVars, fitVars, mathVars >>

(* The chunk that fills the buffer: the completion callback runs in it.    *)
completionTask(used, rejects) ==
  /\ stage = "sampling"
  /\ stage' = "full"
  /\ taskAttempts' = used + CallbackAttempts(orbitalMode, quantum, numElectronsInput,
                                             rejects)
  /\ UNCHANGED << quantum, cloud, mainVars, fitVars, mathVars >>

WorkInit ==
  /\ quantum \in WorkQuantum
  /\ nInput = quantum.n /\ lInput = quantum.l /\ mInput = quantum.m
  /\ numElectronsInput \in {1, MAX_ELECTRONS_SRC}
  /\ orbitalMode \in Modes
  /\ overlayEnabled = FALSE
  /\ SamplerInit
  /\ cloud = << >>
  /\ stage = "sampling"
  /\ FitIdle
  /\ MathIdle
  /\ WorkIdle

WorkNext ==
  \/ \E used \in ChunkAttempts : chunkTask(used)
  \/ \E used \in ChunkAttempts : \E rejects \in RejectCounts :
        completionTask(used, rejects)

WorkSpec == WorkInit /\ [][WorkNext]_vars

(***************************************************************************)
(* kmeans (lines 3070-3151) on its own: the points, k, maxIter and the     *)
(* indices its random draws give are fixed by the call.                    *)
(***************************************************************************)
MaxPoints == 3

KmeansKinds ==
  { MakePoint(3000, [c |-> 100, s |-> 0], "acc"),
    MakePoint(3000, [c |-> 0, s |-> 100], "acc"),
    MakePoint(60000, [c |-> 0, s |-> 100], "acc") }

KmeansK == {2, 4}

KmeansMaxIter == {1, 30}

KmeansCalls ==
  UNION { [fn : {"kmeans"}, points : [1 .. n -> KmeansKinds], k : {k},
           maxIter : KmeansMaxIter,
           seeds : IF n = 0 THEN {<< >>} ELSE [1 .. k -> 1 .. n],
           reseed : IF n = 0 THEN {0} ELSE 1 .. n]
          : n \in 0 .. MaxPoints, k \in KmeansK }

kmeansPasses(pts, k, seeds, reseed, maxIter) ==
  IF Len(pts) <= 0 THEN 0
  ELSE LloydPasses(pts, [c \in 1 .. k |-> Centroid(pts[seeds[c]])],
                   Copies(1, Len(pts)), reseed, maxIter)

callKmeans ==
  /\ args.fn = "kmeans"
  /\ returned = NoCall
  /\ returned' = [clusters |-> kmeans(args.points, args.k, args.seeds, args.reseed,
                                      args.maxIter),
                  passes |-> kmeansPasses(args.points, args.k, args.seeds, args.reseed,
                                          args.maxIter)]
  /\ UNCHANGED << args, taskAttempts, mainVars, radiusVars, fitVars >>

KmeansInit ==
  /\ MainInit
  /\ numElectronsInput = 0
  /\ orbitalMode = "basic"
  /\ RadiusIdle
  /\ FitIdle
  /\ args \in KmeansCalls
  /\ returned = NoCall
  /\ WorkIdle

KmeansNext == callKmeans

KmeansSpec == KmeansInit /\ [][KmeansNext]_vars

(***************************************************************************)
(* Properties.                                                             *)
(***************************************************************************)

(* C1: a superseded session is inert.  A start timer or chunk of a session *)
(* older than the current one changes neither positions, sizes nor         *)
(* sampleCount, calls no completion callback and arms no further timer;    *)
(* and every slot of the current buffer is either untouched or was stored  *)
(* by the current session.                                                 *)
C1_SupersededInert ==
  /\ [](positions # NullBuffer =>
          \A i \in 1 .. Len(positions) : positions[i] \in {0, currentSamplingId})
  /\ [][\A s \in SessionIds :
          (s < currentSamplingId /\ (\E acc \in Outcomes : chunk(s, acc)))
            => /\ UNCHANGED << positions, sizes, sampleCount, onDoneCalls >>
               /\ ~TimerPending(s)']_vars

(* C1 witness: the pending timer of a superseded session has fired while   *)
(* the newer session holds samples of its own.                             *)
C1_Witness ==
  /\ currentSamplingId = 2
  /\ sessions[1].pc = "stale"
  /\ sampleCount > 0

(* C5: when a session's completion callback is invoked the session's       *)
(* writes are done: sampleCount equals the requested count and             *)
(* sampleTarget, and every slot of the buffer was stored by that session.  *)
C5_DoneAfterWrites ==
  \A s \in SessionIds :
    doneAt[s] # NotDone =>
      /\ doneAt[s].sampleCount = doneAt[s].numSamples
      /\ doneAt[s].sampleCount = doneAt[s].sampleTarget
      /\ doneAt[s].stored = doneAt[s].numSamples

(* C5 witness: a callback has been invoked for a session that needed more  *)
(* than one chunk.                                                         *)
C5_Witness ==
  \E s \in SessionIds :
    /\ doneAt[s] # NotDone
    /\ doneAt[s].numSamples = MAX_ELECTRONS
    /\ chunkRuns > 1

(* C6: 0 <= sampleCount <= sampleTarget, positions is null exactly when    *)
(* sampleTarget is 0, a non-null buffer has room for exactly sampleTarget  *)
(* points, and no chunk stores at a point index >= sampleTarget.           *)
C6_BufferBounds ==
  /\ 0 <= sampleCount
  /\ sampleCount <= sampleTarget
  /\ (positions = NullBuffer) <=> (sampleTarget = 0)
  /\ positions # NullBuffer => Len(positions) = sampleTarget
  /\ ~oobStore

(* C6 witness: the last chunk of a session was cut short by numSamples     *)
(* and the buffer is full.                                                 *)
C6_Witness ==
  /\ positions # NullBuffer
  /\ sampleCount = sampleTarget
  /\ sampleTarget = MAX_ELECTRONS
  /\ chunkRuns = 2

(* C8: the deferred part of computeOverlay does not write overlayCache     *)
(* when the session whose buffer it snapshotted is no longer current or    *)
(* the buffer has been cleared.                                            *)
C8_StaleFitNoWrite ==
  [][(/\ fitTimerFires
      /\ \/ Head(fitTimers).sid # currentSamplingId
         \/ positions = NullBuffer)
       => overlayCache' = overlayCache]_vars

(* C9: overlayCache is non-null only if overlays are on and a non-empty    *)
(* buffer exists.                                                          *)
C9_CacheOnlyWhenRequested ==
  overlayCache # NoCache =>
    /\ overlayEnabled
    /\ positions # NullBuffer
    /\ sampleCount > 0

(* C10: no chunk stores into the cleared (null) positions buffer.          *)
C10_NoStoreIntoNull ==
  \A s \in SessionIds : sessions[s].pc # "threw"

(* C2: the completion callback of a session is invoked at most once, and   *)
(* exactly once unless the session is superseded or the count is set to 0  *)
(* (the buffer cleared) while it runs.                                     *)
C2_CallbackOnce ==
  /\ [](\A s \in SessionIds : onDoneCalls[s] <= 1)
  /\ \A s \in SessionIds :
       (sessions[s].pc = "start")
         ~> (onDoneCalls[s] = 1 \/ currentSamplingId > s \/ positions = NullBuffer)

(* C2 witness: a session that ran to the end without being superseded or   *)
(* cleared has had its callback invoked once.                              *)
C2_Witness ==
  \E s \in SessionIds :
    /\ s = currentSamplingId
    /\ sessions[s].pc = "done"
    /\ onDoneCalls[s] = 1
    /\ positions # NullBuffer

(* C3: once a session with count C > 0 is started and the user has         *)
(* stopped, the session completes (callback invoked, sampling = false,     *)
(* sampleCount = C) whatever the accept/reject draws, within C chunk       *)
(* executions.                                                             *)
C3_SamplingTerminates ==
  /\ [](positions # NullBuffer => chunkRuns <= sampleTarget)
  /\ \A s \in SessionIds :
       (/\ uiQuiet /\ ~orbitalUpdateTimer
        /\ s = currentSamplingId /\ TimerPending(s)
        /\ positions # NullBuffer)
         ~> (/\ sessions[s].pc = "done"
             /\ onDoneCalls[s] = 1
             /\ ~sampling
             /\ sampleCount = doneAt[s].numSamples
             /\ sampleCount > 0)

(* C3 witness: a session of MAX_ELECTRONS points has completed after the   *)
(* user stopped, using as many chunks as the bound allows at most for a    *)
(* session that fills by acceptance.                                       *)
C3_Witness ==
  /\ uiQuiet
  /\ currentSamplingId >= 1
  /\ positions # NullBuffer
  /\ sampleCount = MAX_ELECTRONS
  /\ ~sampling
  /\ chunkRuns = MAX_ELECTRONS

(* C4: when the user has stopped and nothing is left to run, the buffer    *)
(* holds exactly the count C left in the count field: sampleCount = C,     *)
(* sampling = false, and positions is null when C = 0.                     *)
C4_EventuallyCountPoints ==
  Quiescent =>
    /\ sampleCount = numElectronsInput
    /\ ~sampling
    /\ (numElectronsInput = 0 => positions = NullBuffer)

(* C7: accepted and fallback-fill samples are never stored with a radius   *)
(* below NUCLEUS_RADIUS + ELECTRON_MIN_GAP, and after the completion       *)
(* handler's pushElectronsOutward every point, whatever it was before      *)
(* (the exact origin included), has radius >= that minimum.                *)
C7_MinimumRadius ==
  /\ \A i \in 1 .. Len(cloud) :
       cloud[i].src \in {"acc", "fill"} => cloud[i].r >= minR
  /\ stage = "pushed" => \A i \in 1 .. Len(cloud) : cloud[i].r >= minR

(* C7 witness: pushElectronsOutward has run in near-multiplier mode on a   *)
(* buffer holding a point at the exact origin.                             *)
C7_Witness ==
  /\ stage = "pushed"
  /\ quantum.l = 2 /\ quantum.m = 0
  /\ \E i \in 1 .. Len(cloud) : cloud[i].r0 = 0

(* C11: in 'basic' mode with l <= 2, when overlays are on, a completed     *)
(* non-empty buffer exists and no timer is left to run (so that without a  *)
(* further event nothing changes any more), overlayCache is non-null,      *)
(* whatever input events came before, those that left the UI values        *)
(* unchanged included.                                                     *)
C11_OverlayRecomputed ==
  (/\ orbitalMode = "basic" /\ lInput <= 2
   /\ overlayEnabled
   /\ positions # NullBuffer /\ sampleCount > 0 /\ ~sampling
   /\ sampleCount = sampleTarget
   /\ ~orbitalUpdateTimer
   /\ \A s \in SessionIds : ~TimerPending(s)
   /\ overlayTimers = 0 /\ fitTimers = << >>)
    => overlayCache # NoCache

(* C12: computeOverlay always yields a descriptor of one of the four       *)
(* variants: for every valid (n, l, m), l >= 3 included, and every         *)
(* non-empty buffer, the descriptor built has type 's', 'p', 'dz2' or 'd'  *)
(* and non-null data.                                                      *)
C12_DescriptorVariant ==
  fitted # NoFit => (fitted.type \in {"s", "p", "dz2", "d"} /\ fitted.data # NoData)

(* C13: for l = 1 the descriptor has exactly two lobes, with the same t95  *)
(* and the same r95, whatever the clustering made of the points.           *)
C13_LobePair ==
  (fitted # NoFit /\ lInput = 1) =>
    /\ Len(fitted.data.lobes) = 2
    /\ \A i, j \in 1 .. Len(fitted.data.lobes) :
         /\ fitted.data.lobes[i].t95 = fitted.data.lobes[j].t95
         /\ fitted.data.lobes[i].r95 = fitted.data.lobes[j].r95

(* C14: for l = 2, m = 0 the ring of the descriptor has                    *)
(* innerRadius < outerRadius and both radii above NUCLEUS_RADIUS +         *)
(* ELECTRON_MIN_GAP, after the DZ2_RING_SHRINK_FACTOR scaling.             *)
C14_RingRadii ==
  (fitted # NoFit /\ lInput = 2 /\ mInput = 0) =>
    /\ fitted.data.ring.innerRadius < fitted.data.ring.outerRadius
    /\ fitted.data.ring.innerRadius > minR * RingScale
    /\ fitted.data.ring.outerRadius > minR * RingScale

(* C15: when createOrbitalFromUI reads n < 1, l < 0, l >= n or |m| > l     *)
(* from the fields, it starts no session: currentSamplingId, positions,    *)
(* sampleCount, sampleTarget, sampling and lastUIHash are left unchanged.  *)
C15_InvalidRejected ==
  [][(/\ orbitalUpdateTimer /\ ~orbitalUpdateTimer'
      /\ (nInput < 1 \/ lInput < 0 \/ lInput >= nInput \/ Abs(mInput) > lInput))
       => UNCHANGED << currentSamplingId, positions, sampleCount, sampleTarget,
                       sampling, lastUIHash >>]_vars

(* C16: every increment of currentSamplingId is by one, takes an id no     *)
(* session had before, and starts a session with n >= 1, 0 <= l <= n - 1,  *)
(* |m| <= l and 1 <= count <= MAX_ELECTRONS; currentSamplingId never       *)
(* decreases.                                                              *)
C16_SessionParameters ==
  [][currentSamplingId' # currentSamplingId =>
       /\ currentSamplingId' = currentSamplingId + 1
       /\ sessions[currentSamplingId'].pc = "none"
       /\ onDoneCalls[currentSamplingId'] = 0
       /\ LET s == sessions'[currentSamplingId']
          IN  /\ s.pc = "start"
              /\ s.n >= 1
              /\ 0 <= s.l /\ s.l <= s.n - 1
              /\ Abs(s.m) <= s.l
              /\ 1 <= s.numSamples /\ s.numSamples <= MAX_ELECTRONS
              /\ sampleTarget' = s.numSamples]_vars

(* C16 witness: a second session has been started, with l = 1.             *)
C16_Witness ==
  /\ currentSamplingId >= 2
  /\ sessions[currentSamplingId].pc = "start"
  /\ sessions[currentSamplingId].l = 1
  /\ sessions[currentSamplingId].numSamples = MAX_ELECTRONS

(* C17: an exception raised inside the completion callback of session s is *)
(* caught: the chunk returns normally, currentSamplingId is unchanged,     *)
(* sampleCount and the buffer are what the callback was handed, sampling   *)
(* is false, and a session started afterwards still runs to completion.    *)
C17_CallbackFailureContained ==
  /\ [][\A s \in SessionIds :
         (onDoneCalls'[s] = onDoneCalls[s] + 1 /\ sessions'[s].pc # "done")
           => /\ sessions'[s].pc = "caught"
              /\ currentSamplingId' = currentSamplingId
              /\ sampleCount' = doneAt'[s].sampleCount
              /\ positions' # NullBuffer
              /\ Len(positions') = Len(positions)
              /\ StoredBy(positions', s) = doneAt'[s].stored
              /\ ~sampling']_vars
  /\ \A s1 \in SessionIds : \A s2 \in SessionIds :
       (/\ sessions[s1].pc = "caught" /\ s2 > s1
        /\ uiQuiet /\ ~orbitalUpdateTimer
        /\ s2 = currentSamplingId /\ sessions[s2].pc = "start"
        /\ positions # NullBuffer)
         ~> (/\ sessions[s2].pc \in {"done", "caught"}
             /\ onDoneCalls[s2] = 1
             /\ ~sampling
             /\ sampleCount = doneAt[s2].numSamples)

(* C17 witness: the callback of the first session raised and was caught,   *)
(* and the session started after it has completed with all its points.    *)
C17_Witness ==
  /\ currentSamplingId = 2
  /\ sessions[1].pc = "caught"
  /\ sessions[2].pc = "done"
  /\ onDoneCalls[2] = 1
  /\ sampleCount = MAX_ELECTRONS
  /\ ~sampling

(* C18: associatedLegendre(l, m, x) equals the closed forms P(0,0,x) = 1,  *)
(* P(1,0,x) = x, P(1,1,x) = -sqrt(1 - x^2), P(2,0,x) = (3 x^2 - 1) / 2 for *)
(* x in [-1, 1], and is 0 when m > l.                                      *)
C18_LegendreClosedForms ==
  args.fn = "associatedLegendre" =>
    LET x == args.x
        one == [n |-> 1, d |-> 1]
        sin2 == [n |-> x.d * x.d - x.n * x.n, d |-> x.d * x.d]
    IN  /\ (args.l = 0 /\ args.m = 0) => returned = one
        /\ (args.l = 1 /\ args.m = 0) => returned = x
        /\ (args.l = 1 /\ args.m = 1) =>
              /\ returned.n <= 0
              /\ returned.n * returned.n * sin2.d = sin2.n * returned.d * returned.d
        /\ (args.l = 2 /\ args.m = 0) =>
              returned.n * 2 * x.d * x.d = (3 * x.n * x.n - x.d * x.d) * returned.d
        /\ args.m > args.l => returned.n = 0

(* C18 witness: P(2,0,x) was evaluated at x = 3/5, giving 1/25.            *)
C18_Witness ==
  /\ args = [fn |-> "associatedLegendre", l |-> 2, m |-> 0, x |-> [n |-> 3, d |-> 5]]
  /\ returned = [n |-> 1, d |-> 25]

(* C19: radialLScale(l), for integers l >= 0, is 1.0 at l = 0, never below *)
(* 0.6, equal to max(0.6, 1 - 0.06 l), and does not increase with l.       *)
C19_RadialScaleMonotone ==
  /\ [](args.fn = "radialLScale" /\ args.l >= 0 =>
          /\ args.l = 0 => returned = 100
          /\ returned >= 60
          /\ \/ returned = 60 /\ 100 - 6 * args.l <= 60
             \/ returned = 100 - 6 * args.l /\ returned >= 60)
  /\ [][(/\ args.fn = "radialLScale" /\ args'.fn = "radialLScale"
          /\ args.l >= 0 /\ args'.l >= args.l)
           => returned' <= returned]_vars

(* C19 witness: the scale was evaluated past the point where the floor     *)
(* takes over (1 - 0.06 * 7 = 0.58).                                       *)
C19_Witness ==
  args = [fn |-> "radialLScale", l |-> 7] /\ returned = 60

(* C20: a chunk that uses up its attempt budget (its loop ends short of    *)
(* the index it was to reach) while the buffer is unfilled fills the       *)
(* remaining slots and completes the session; it is not rescheduled.  So a *)
(* chunk of the current session that is rescheduled has reached the index  *)
(* it was to reach.                                                        *)
C20_ExhaustedBudgetFills ==
  [][\A s \in SessionIds :
       (/\ s = currentSamplingId
        /\ TimerPending(s)
        /\ chunkRuns' = chunkRuns + 1
        /\ sessions'[s].pc = "chunk")
         => sampleCount' = StopIndex(sessions[s].numSamples, sampleCount)]_vars

(* C21: no timer callback, the completion callback it runs included, makes *)
(* more than ATTEMPTS_PER_CHUNK sampling attempts before it returns.       *)
C21_AttemptBudgetPerTask ==
  taskAttempts <= ATTEMPTS_PER_CHUNK_SRC

(* C22: a descriptor is fitted with the quantum numbers of the session     *)
(* that produced the buffer.  So the type of a cached descriptor of the    *)
(* current session's buffer is the type of the (l, m) that session was     *)
(* started with, which are those of the last accepted request.             *)
C22_FitUsesSessionQuantum ==
  (/\ overlayCache # NoCache
   /\ overlayCache.sid = currentSamplingId
   /\ positions # NullBuffer
   /\ lastUIHash # NoHash
   /\ lastUIHash.ne > 0)
    => overlayCache.type = OverlayType(lastUIHash.l, lastUIHash.m)

(* C26: every snapshot computeOverlay takes is of the buffer of a          *)
(* completed session: sampling is false, the buffer is full and all of it  *)
(* was stored by the current session, whose completion callback (and with  *)
(* it pushElectronsOutward) has run exactly once.                          *)
C26_SnapshotOfCompletedSession ==
  [][Len(fitTimers') > Len(fitTimers) =>
       /\ ~fitTimers'[Len(fitTimers')].sampling
       /\ ~sampling'
       /\ positions' # NullBuffer
       /\ sampleCount' > 0
       /\ sampleCount' = sampleTarget'
       /\ currentSamplingId' >= 1
       /\ sessions'[currentSamplingId'].pc = "done"
       /\ onDoneCalls'[currentSamplingId'] = 1
       /\ StoredBy(positions', currentSamplingId') = sampleCount']_vars

(* C26 witness: the overlay button's timer has taken a snapshot of the     *)
(* buffer of the second session, after that session completed with         *)
(* overlays off.                                                           *)
C26_Witness ==
  /\ Len(fitTimers) = 1
  /\ fitTimers[1].sid = 2
  /\ currentSamplingId = 2
  /\ sessions[2].pc = "done"
  /\ doneAt[2].sampleCount = MAX_ELECTRONS
  /\ overlayCache = NoCache
  /\ ~sampling

(* C29: at every task boundary sampling is true exactly when a buffer      *)
(* exists and is not yet full; once the completion callback has run,       *)
(* sampling stays false until the next session is started.                 *)
C29_SamplingTracksSession ==
  /\ [](sampling <=> (positions # NullBuffer /\ sampleCount < sampleTarget))
  /\ [][(~sampling /\ sampling') => currentSamplingId' = currentSamplingId + 1]_vars

(* C29 witness: the first session completed, and the session started after *)
(* it has filled part of its buffer.                                       *)
C29_Witness ==
  /\ currentSamplingId = 2
  /\ onDoneCalls[1] = 1
  /\ sampling
  /\ sampleCount = 1
  /\ sampleTarget = MAX_ELECTRONS

(* C28: createOrbitalFromUI run on the values of its last accepted call    *)
(* leaves currentSamplingId, positions, sizes, sampleCount, sampleTarget,  *)
(* sampling and overlayCache unchanged.                                    *)
C28_SameRequestIsNoop ==
  [][(/\ orbitalUpdateTimer /\ ~orbitalUpdateTimer'
      /\ lastUIHash = UIHash(nInput, lInput, mInput, numElectronsInput, orbitalMode))
       => UNCHANGED << currentSamplingId, positions, sizes, sampleCount, sampleTarget,
                       sampling, overlayCache, lastUIHash, sessions >>]_vars

(* C28 witness: with overlays on, a completed session and every overlay    *)
(* timer run, the cache is empty and the debounce timer has fired: an      *)
(* input event cleared the cache and createOrbitalFromUI then ran on the   *)
(* unchanged values.                                                       *)
C28_Witness ==
  /\ overlayEnabled /\ orbitalMode = "basic"
  /\ overlayCache = NoCache
  /\ ~orbitalUpdateTimer
  /\ overlayTimers = 0 /\ fitTimers = << >>
  /\ currentSamplingId = 1
  /\ sessions[1].pc = "done"
  /\ sampleCount = MAX_ELECTRONS
  /\ lastUIHash = UIHash(nInput, lInput, mInput, numElectronsInput, orbitalMode)

(* C27: orbital updates are debounced.  At most one update timer is        *)
(* pending; an input event leaves exactly one pending, whatever was        *)
(* pending before it; and the call of createOrbitalFromUI consumes it, so  *)
(* that events with no call between them are followed by one call.         *)
C27_Debounced ==
  /\ [](pendingUpdates \in {0, 1})
  /\ [](orbitalUpdateTimer <=> pendingUpdates = 1)
  /\ [][uiVars' # uiVars => pendingUpdates' = 1]_vars
  /\ [][(orbitalUpdateTimer /\ ~orbitalUpdateTimer')
          => (pendingUpdates = 1 /\ pendingUpdates' = 0)]_vars

(* C27 witness: setup armed the timer and an input event on the l field    *)
(* re-armed it before it fired; the one call of createOrbitalFromUI that   *)
(* followed started a session with the new l and left no timer pending.    *)
C27_Witness ==
  /\ currentSamplingId = 1
  /\ sessions[1].pc = "start"
  /\ sessions[1].l = 1
  /\ pendingUpdates = 0
  /\ ~orbitalUpdateTimer

(* C23: the type of a descriptor depends on (l, m) alone: 's' for l = 0,   *)
(* 'p' for l = 1, 'dz2' for l = 2 and m = 0, 'd' for l = 2 and m # 0,      *)
(* whatever the buffer holds and whatever the clustering draws.            *)
C23_TypeFromQuantum ==
  (fitted # NoFit /\ Len(sampled) > 0) =>
    /\ lInput = 0 => fitted.type = "s"
    /\ lInput = 1 => fitted.type = "p"
    /\ (lInput = 2 /\ mInput = 0) => fitted.type = "dz2"
    /\ (lInput = 2 /\ mInput # 0) => fitted.type = "d"

(* C23 witness: a buffer of nine points was fitted for (3, 2, 0).          *)
C23_Witness ==
  /\ fitted # NoFit
  /\ lInput = 2 /\ mInput = 0
  /\ Len(sampled) = 9
  /\ fitted.type = "dz2"

(* C24: for l = 2, m # 0 the descriptor has exactly 4 lobes, all with the  *)
(* same axial value and the same radialMajor = radialMinor value.          *)
C24_FourCongruentLobes ==
  (fitted # NoFit /\ lInput = 2 /\ mInput # 0 /\ Len(sampled) > 0) =>
    LET lobes == fitted.data.lobes
    IN  /\ Len(lobes) = 4
        /\ \A i \in 1 .. Len(lobes) :
             /\ lobes[i].axial = lobes[1].axial
             /\ lobes[i].radialMajor = lobes[1].radialMajor
             /\ lobes[i].radialMinor = lobes[i].radialMajor

(* C24 witness: 4-means split sixteen points into four clusters of four,   *)
(* and the four lobes lie along the clusters, not along the fallback axes. *)
C24_Witness ==
  /\ fitted # NoFit
  /\ lInput = 2 /\ mInput # 0
  /\ Len(sampled) = 16
  /\ Len(fitted.data.lobes) = 4
  /\ \A i \in 1 .. 4 : fitted.data.lobes[i].axisUnit[2] = 0

(* C25: with at least 8 points and fewer than 4 valid clusters, the four   *)
(* fallback lobes carry axial = globalT95 and radialMajor = radialMinor =  *)
(* globalR95.  Stated for the buffers whose globalR95 is above 1.          *)
C25_FallbackExtents ==
  (/\ fitted # NoFit /\ lInput = 2 /\ mInput # 0
   /\ Len(sampled) >= 8
   /\ GlobalR95(sampled) > 100
   /\ fitted.data.lobes[3].axisUnit = FallbackAxes[3])
    => \A i \in 1 .. 4 :
         /\ fitted.data.lobes[i].axial = GlobalT95(sampled)
         /\ fitted.data.lobes[i].radialMajor = GlobalR95(sampled)
         /\ fitted.data.lobes[i].radialMinor = GlobalR95(sampled)

(* C30: kmeans returns [] when count <= 0; otherwise it makes at most      *)
(* maxIter passes and returns exactly k index lists in which every point   *)
(* index occurs exactly once.                                              *)
C30_KmeansPartition ==
  (args.fn = "kmeans" /\ returned # NoCall) =>
    LET n == Len(args.points)
        clusters == returned.clusters
    IN  IF n <= 0 THEN clusters = << >>
        ELSE /\ returned.passes <= args.maxIter
             /\ Len(clusters) = args.k
             /\ \A i \in 1 .. n :
                  Cardinality({<< c, j >> \in (1 .. args.k) \X (1 .. n) :
                                 j <= Len(clusters[c]) /\ clusters[c][j] = i}) = 1
             /\ \A c \in 1 .. args.k : \A j \in 1 .. Len(clusters[c]) :
                  clusters[c][j] \in 1 .. n

(* C30 witness: three points were split four ways from duplicate initial   *)
(* centroids, leaving clusters empty, and the pass limit cut the loop.     *)
C30_Witness ==
  /\ args.fn = "kmeans" /\ returned # NoCall
  /\ Len(args.points) = 3 /\ args.k = 4
  /\ args.seeds[1] = args.seeds[2]
  /\ args.maxIter = 1 /\ returned.passes = 1
  /\ \E c \in 1 .. 4 : returned.clusters[c] = << >>
  /\ \E c \in 1 .. 4 : Len(returned.clusters[c]) >= 2

=============================================================================
